---- MODULE Spec2Model ----
(***************************************************************************)
(* k0da: cluster bootstrap orchestrator, readiness wait and unified        *)
(* kubeconfig store, modelled from cmd/create.go, internal/utils/utils.go  *)
(* and internal/config/config.go.                                          *)
(***************************************************************************)
EXTENDS Integers, Sequences, FiniteSets, TLC

VARIABLES
    \* ---- unified kubeconfig file (utils.go Kubeconfig) ----
    kc,         \* the file: [exists, clusters, contexts, users, current]
    lastOp,     \* the last kubeconfig operation: [op, name, creds, port, cur0]
    prevAdd,    \* name whose successful add immediately preceded lastOp, or ""
    \* ---- one call of WaitForK0sReady (utils.go) ----
    wpc,        \* "select" (blocked in the select), "exec" (status exec running), "done"
    wres,       \* "none", "ok", "timeout", "cancelled": what the call returned
    wnow,       \* seconds since startTime, saturating at MaxTime
    wphase,     \* seconds since the ticker last fired
    wtick,      \* a tick is buffered in ticker.C
    wcancelled, \* ctx.Done() is closed
    wtimeout,   \* the timeout argument: [ok, secs], ok = time.ParseDuration accepts it
    wnever,     \* the node never signals readiness
    wexecAfterCancel, \* a status exec was issued after ctx was cancelled
    wlast,      \* what the last status exec returned, <<>> before the first
    \* ---- one run of `create` (cmd/create.go) ----
    topo,       \* the input: [nodes, k0sArgs, wait]
    pc,         \* the step create is about to take, "done" once it returned
    result,     \* "none", "ok", "error": what create returned
    failedAt,   \* the step whose failure made create return, or "none"
    cfgPath,    \* k0sConfigHostPath: the staged k0s.yaml, "" when none
    ni,         \* the join loop's position in cc.Spec.Nodes (from 1)
    idx,        \* the join loop's counter for generated node names
    loc,        \* the join loop's locals: [role, name, token]
    mintCount,  \* token-mint execs the primary has served
    containers, \* the engine's containers: [name, node, args, started]
    networks,   \* the engine's networks
    tokenFiles, \* the files under tokens/: [path, token]
    log,        \* the side effects create has caused, in order
    \* ---- one run of `delete` (cmd/delete.go) against the engine ----
    engContainers, \* the engine's containers: [name, labels, running, ord]
    engVolumes, \* the engine's named volumes
    clusterDir, \* $HOME/.k0da/clusters/<name> exists
    dmade,      \* names of the containers create made for the cluster
    dpc,        \* the step delete is about to take, "done" once it returned
    dres,       \* "none", "ok", "error": what delete returned
    dlist,      \* names ListContainersByLabel returned
    dtodo,      \* names the running loop has still to visit
    \* ---- one run of `update` (runUpdate) ----
    uname,      \* the cluster name argument
    umanifests, \* the loaded config lists manifests
    upc,        \* the step update is about to take, "done" once it returned
    ures,       \* "none", "ok", "error": what update returned
    ustaged,    \* the staging steps that have succeeded
    ucalls,     \* the calls update has made on the runtime backend, in order
    \* ---- the primary's published ports (createK0sCluster) ----
    pdeclared,  \* node.Ports of the primary node
    ppc,        \* the step about to be taken, "done" once createK0sCluster went on
    publish,    \* the local `publish`
    pallocs,    \* host ports AllocateHostPort has handed out
    pcreated,   \* the Publish option of each RunContainer call made
    \* ---- one labelled container, from creation to listing ----
    lnode,      \* the node create starts: [cluster, primary, name, role, labels]
    lpc,        \* "run", "list", "done"
    lfound,     \* names listed for the selector k0da.cluster.name=<cluster>
    lshown,     \* cluster names `list` shows
    \* ---- one call of runtime.Detect (internal/runtime/detect.go) ----
    detEnv,     \* options, environment variables, socket files, podman's answers
    detPc,      \* the step Detect is about to take, "done" once it returned
    detRuntime, \* the local `runtime`
    detSocket,  \* the local `socket`
    detIdentity, \* the local `identity`
    detSetBy,   \* the steps that assigned `socket`, in order
    detProbed,  \* socket paths a DialTimeout probe has reached
    detTried,   \* backends Detect tried to connect: [backend, ok]
    detRet,     \* what Detect returned: [kind, socket, connection]
    \* ExecInContainer
    execBackend, \* the backend the call is made on
    execPc,     \* "call", "ran" or "done"
    execCmd,    \* what cmd.CombinedOutput() returned: [out, err, code]
    execRet,    \* what ExecInContainer returned: [out, code, err]
    \* a single call of one function or method
    callIn,     \* its arguments
    callPc,     \* its position
    callLocal,  \* its local variables
    callOut,    \* what it returned
    callEngine  \* the state of the engine or the file system it acts on

kubeVars == <<kc, lastOp, prevAdd>>

createVars == <<topo, pc, result, failedAt, cfgPath, ni, idx, loc, mintCount,
                containers, networks, tokenFiles, log>>

waitVars == <<wpc, wres, wnow, wphase, wtick, wcancelled, wtimeout, wnever,
              wexecAfterCancel, wlast>>

deleteVars == <<engContainers, engVolumes, clusterDir, dmade, dpc, dres, dlist, dtodo>>

\* the commands modelled apart from create, the wait and the kubeconfig store
updateVars == <<uname, umanifests, upc, ures, ustaged, ucalls>>

portsVars == <<pdeclared, ppc, publish, pallocs, pcreated>>

labelVars == <<lnode, lpc, lfound, lshown>>

detectVars == <<detEnv, detPc, detRuntime, detSocket, detIdentity, detSetBy,
                detProbed, detTried, detRet>>

execVars == <<execBackend, execPc, execCmd, execRet>>

callVars == <<callIn, callPc, callLocal, callOut, callEngine>>

opsVars == <<deleteVars, updateVars, portsVars, labelVars, detectVars, execVars, callVars>>

vars == <<kubeVars, waitVars, createVars, opsVars>>

(***************************************************************************)
(* Bounds and input sets                                                   *)
(***************************************************************************)
\* longest cluster/context/user list a kubeconfig holds before the first operation
MaxPrior == 2

\* seconds of the wait the clock distinguishes; later instants count as MaxTime
MaxTime == 64

\* most nodes a topology declares
MaxNodes == 3

LocalNames == {"a", "b"}

BoundedSeq(S, n) == UNION {[1..k -> S] : k \in 0..n}

(***************************************************************************)
(* Kubeconfig store                                                        *)
(***************************************************************************)
\* fmt.Sprintf("k0da-%s", clusterName)
FormatName(clusterName) == "k0da-" \o clusterName

EntryNames == {FormatName(n) : n \in LocalNames}

\* fmt.Sprintf("https://127.0.0.1:%s", port)
ServerURL(port) == "https://127.0.0.1:" \o port

\* the kubeconfig AddClusterToKubeconfig starts from when the file is missing
EmptyKubeconfig ==
    [exists |-> TRUE, clusters |-> <<>>, contexts |-> <<>>, users |-> <<>>,
     current |-> ""]

\* no file on disk
AbsentKubeconfig ==
    [exists |-> FALSE, clusters |-> <<>>, contexts |-> <<>>, users |-> <<>>,
     current |-> ""]

\* what `k0s kubeconfig admin` can print and yaml.Unmarshal accepts: any number
\* of clusters, contexts and users (an empty document has none of them)
AdminClusterSeqs ==
    {<<>>,
     <<[server |-> "https://localhost:6443", ca |-> "ca1"]>>,
     <<[server |-> "https://localhost:6443", ca |-> "ca2"],
       [server |-> "https://localhost:6443", ca |-> "ca1"]>>}

AdminUserSeqs == {<<>>, <<[cert |-> "crt1"]>>, <<[cert |-> "crt2"], [cert |-> "crt1"]>>}

AdminCredentials ==
    {[clusters |-> c, hasContexts |-> h, users |-> u] :
        c \in AdminClusterSeqs, h \in BOOLEAN, u \in AdminUserSeqs}

NoCreds == [clusters |-> <<>>, hasContexts |-> FALSE, users |-> <<>>]

HostPorts == {"52345"}

\* kubeconfig contents written by earlier runs or by other tools
PriorClusters == {[name |-> n, server |-> "https://old", ca |-> "old"] : n \in EntryNames}
PriorContexts == {[name |-> n, cluster |-> n, user |-> n] : n \in EntryNames}
PriorUsers == {[name |-> n, cert |-> "old"] : n \in EntryNames}

PriorKubeconfigs ==
    {AbsentKubeconfig} \cup
    {[exists |-> TRUE, clusters |-> c, contexts |-> x, users |-> u, current |-> cur] :
        c \in BoundedSeq(PriorClusters, MaxPrior),
        x \in BoundedSeq(PriorContexts, MaxPrior),
        u \in BoundedSeq(PriorUsers, MaxPrior),
        cur \in EntryNames \cup {""}}

\* removeClusterFromKubeconfig, missing the users list
removeClusterKeepingUsers(kubeconfig, clusterName) ==
    [kubeconfig EXCEPT
        !.clusters = SelectSeq(@, LAMBDA e : e.name # FormatName(clusterName)),
        !.contexts = SelectSeq(@, LAMBDA e : e.name # FormatName(clusterName))]

\* removeClusterFromKubeconfig matching on the k0da- prefix only
removeClusterByPrefix(kubeconfig, clusterName) ==
    [kubeconfig EXCEPT
        !.clusters = SelectSeq(@, LAMBDA e : e.name \notin EntryNames),
        !.contexts = SelectSeq(@, LAMBDA e : e.name \notin EntryNames),
        !.users = SelectSeq(@, LAMBDA e : e.name \notin EntryNames)]

\* removeClusterFromKubeconfig: drop every cluster, context and user named k0da-N
removeClusterFromKubeconfig(kubeconfig, clusterName) ==
    [kubeconfig EXCEPT
        !.clusters = SelectSeq(@, LAMBDA e : e.name # FormatName(clusterName)),
        !.contexts = SelectSeq(@, LAMBDA e : e.name # FormatName(clusterName)),
        !.users = SelectSeq(@, LAMBDA e : e.name # FormatName(clusterName))]

\* AddClusterToKubeconfig without the removal of the entries already there
AppendOnlyKubeconfig(file, clusterName, creds, port) ==
    LET base == IF file.exists THEN file ELSE EmptyKubeconfig
        nm == FormatName(clusterName)
    IN [exists |-> TRUE,
        clusters |-> IF Len(creds.clusters) > 0
                     THEN Append(base.clusters,
                                 [name |-> nm, server |-> ServerURL(port),
                                  ca |-> creds.clusters[1].ca])
                     ELSE base.clusters,
        contexts |-> IF creds.hasContexts
                     THEN Append(base.contexts, [name |-> nm, cluster |-> nm, user |-> nm])
                     ELSE base.contexts,
        users |-> IF Len(creds.users) > 0
                  THEN Append(base.users, [name |-> nm, cert |-> creds.users[1].cert])
                  ELSE base.users,
        current |-> nm]

\* the file AddClusterToKubeconfig saves, once the admin credentials are parsed
\* and the host port is known
AddedKubeconfig(file, clusterName, creds, port) ==
    LET base == IF file.exists THEN file ELSE EmptyKubeconfig
        kept == removeClusterFromKubeconfig(base, clusterName)
        nm == FormatName(clusterName)
    IN [exists |-> TRUE,
        clusters |-> IF Len(creds.clusters) > 0
                     THEN Append(kept.clusters,
                                 [name |-> nm, server |-> ServerURL(port),
                                  ca |-> creds.clusters[1].ca])
                     ELSE kept.clusters,
        contexts |-> IF creds.hasContexts
                     THEN Append(kept.contexts, [name |-> nm, cluster |-> nm, user |-> nm])
                     ELSE kept.contexts,
        users |-> IF Len(creds.users) > 0
                  THEN Append(kept.users, [name |-> nm, cert |-> creds.users[1].cert])
                  ELSE kept.users,
        current |-> nm]

\* RemoveClusterFromKubeconfig that picks the fallback before filtering
RemovedKeepingCurrent(file, clusterName) ==
    LET kept == removeClusterFromKubeconfig(file, clusterName)
    IN IF file.current = FormatName(clusterName)
       THEN [kept EXCEPT !.current =
                IF Len(file.contexts) > 0 THEN file.contexts[1].name ELSE ""]
       ELSE kept

\* the file RemoveClusterFromKubeconfig saves (the file exists)
RemovedKubeconfig(file, clusterName) ==
    LET kept == removeClusterFromKubeconfig(file, clusterName)
    IN IF kept.current = FormatName(clusterName)
       THEN [kept EXCEPT !.current =
                IF Len(kept.contexts) > 0 THEN kept.contexts[1].name ELSE ""]
       ELSE kept

\* AddClusterToKubeconfig returning nil
KubeAdd(n, creds, port) ==
    /\ kc' = AddedKubeconfig(kc, n, creds, port)
    /\ lastOp' = [op |-> "add", name |-> n, creds |-> creds, port |-> port,
                  cur0 |-> kc.current]
    /\ prevAdd' = IF lastOp.op = "add" THEN lastOp.name ELSE ""
    /\ UNCHANGED <<waitVars, createVars, opsVars>>

\* AddClusterToKubeconfig returning an error: exec failure or nonzero exit,
\* unparsable credentials, no port mapping, unreadable or unwritable file
KubeAddFail(n) ==
    /\ kc' = kc
    /\ lastOp' = [op |-> "addfail", name |-> n, creds |-> NoCreds, port |-> "",
                  cur0 |-> kc.current]
    /\ prevAdd' = IF lastOp.op = "add" THEN lastOp.name ELSE ""
    /\ UNCHANGED <<waitVars, createVars, opsVars>>

\* RemoveClusterFromKubeconfig: a missing file is left missing
KubeRemove(n) ==
    /\ kc' = IF kc.exists THEN RemovedKubeconfig(kc, n) ELSE kc
    /\ lastOp' = [op |-> "remove", name |-> n, creds |-> NoCreds, port |-> "",
                  cur0 |-> kc.current]
    /\ prevAdd' = IF lastOp.op = "add" THEN lastOp.name ELSE ""
    /\ UNCHANGED <<waitVars, createVars, opsVars>>

NoOp == [op |-> "none", name |-> "", creds |-> NoCreds, port |-> "", cur0 |-> ""]

\* no wait in progress
WaitParked ==
    /\ wpc = "done"
    /\ wres = "none"
    /\ wnow = 0
    /\ wphase = 0
    /\ wtick = FALSE
    /\ wcancelled = FALSE
    /\ wtimeout = [ok |-> TRUE, secs |-> 0]
    /\ wnever = FALSE
    /\ wexecAfterCancel = FALSE
    /\ wlast = <<>>

\* no create in progress
CreateParked ==
    /\ topo = [nodes |-> <<>>, k0sArgs |-> <<>>, wait |-> FALSE]
    /\ pc = "done"
    /\ result = "none"
    /\ failedAt = "none"
    /\ cfgPath = ""
    /\ ni = 1
    /\ idx = 0
    /\ loc = [role |-> "", name |-> "", token |-> 0]
    /\ mintCount = 0
    /\ containers = {}
    /\ networks = {}
    /\ tokenFiles = {}
    /\ log = <<>>

\* no delete in progress, nothing in the engine
DeleteParked ==
    /\ engContainers = {}
    /\ engVolumes = {}
    /\ clusterDir = FALSE
    /\ dmade = {}
    /\ dpc = "done"
    /\ dres = "none"
    /\ dlist = {}
    /\ dtodo = {}

\* no update in progress
UpdateParked ==
    /\ uname = ""
    /\ umanifests = FALSE
    /\ upc = "done"
    /\ ures = "none"
    /\ ustaged = {}
    /\ ucalls = <<>>

\* no port list under construction
PortsParked ==
    /\ pdeclared = <<>>
    /\ ppc = "done"
    /\ publish = <<>>
    /\ pallocs = {}
    /\ pcreated = <<>>

\* no labelled container under way
LabelsParked ==
    /\ lnode = [cluster |-> "", primary |-> FALSE, name |-> "", role |-> "",
                labels |-> [k \in {} |-> ""]]
    /\ lpc = "done"
    /\ lfound = {}
    /\ lshown = {}

NoBackend == [kind |-> "none", socket |-> "", connection |-> ""]

\* no detection in progress
DetectParked ==
    /\ detEnv = [optRuntime |-> "", envRuntime |-> "", optSocket |-> "",
                 envSocket |-> "", dockerHost |-> "", dockerSocks |-> <<>>,
                 podmanSocks |-> <<>>, conns |-> "none", machine |-> "unknown"]
    /\ detPc = "done"
    /\ detRuntime = ""
    /\ detSocket = ""
    /\ detIdentity = ""
    /\ detSetBy = <<>>
    /\ detProbed = {}
    /\ detTried = <<>>
    /\ detRet = NoBackend

NoExec == [out |-> "", err |-> "nil", code |-> 0]

\* no exec in progress
ExecParked ==
    /\ execBackend = ""
    /\ execPc = "done"
    /\ execCmd = NoExec
    /\ execRet = NoExec

\* no single call in progress
CallParked ==
    /\ callIn = <<>>
    /\ callPc = "done"
    /\ callLocal = <<>>
    /\ callOut = <<>>
    /\ callEngine = <<>>

OpsParked ==
    /\ DeleteParked /\ UpdateParked /\ PortsParked /\ LabelsParked /\ DetectParked
    /\ ExecParked
    /\ CallParked

KubeInit ==
    /\ kc \in PriorKubeconfigs
    /\ lastOp = NoOp
    /\ prevAdd = ""
    /\ WaitParked
    /\ CreateParked
    /\ OpsParked

KubeFreshInit ==
    /\ kc = AbsentKubeconfig
    /\ lastOp = NoOp
    /\ prevAdd = ""
    /\ WaitParked
    /\ CreateParked
    /\ OpsParked

KubeNext ==
    \/ \E n \in LocalNames, creds \in AdminCredentials, port \in HostPorts :
          KubeAdd(n, creds, port)
    \/ \E n \in LocalNames : KubeAddFail(n)
    \/ \E n \in LocalNames : KubeRemove(n)

SpecKube == KubeInit /\ [][KubeNext]_vars

SpecKubeFresh == KubeFreshInit /\ [][KubeNext]_vars

(***************************************************************************)
(* WaitForK0sReady                                                         *)
(***************************************************************************)
\* time.NewTicker(2 * time.Second)
TickInterval == 2

\* timeoutDuration = 60 * time.Second when the argument does not parse
DefaultTimeout == 60

TimeoutArgs ==
    {[ok |-> FALSE, secs |-> 0]} \cup {[ok |-> TRUE, secs |-> t] : t \in {0, 1, 3}}

\* time.ParseDuration(timeout), falling back to the default
TimeoutDuration(arg) == IF arg.ok THEN arg.secs ELSE DefaultTimeout

\* what ExecInContainer(ctx, name, {"k0s", "status"}) returns while ctx is live:
\* err (the command could not run), the exit code, and whether the output
\* contains "Kube-api probing successful: true"
StatusOutcomes ==
    {[err |-> e, exit |-> x, signal |-> g] :
        e \in BOOLEAN, x \in {0, 1}, g \in BOOLEAN}

\* ... and once ctx is cancelled: exec.CommandContext refuses to start the
\* command (err) or kills it (exit code -1, whatever it printed so far)
CancelledStatusOutcomes ==
    {[err |-> TRUE, exit |-> 1, signal |-> FALSE]} \cup
    {[err |-> FALSE, exit |-> -1, signal |-> g] : g \in BOOLEAN}

\* isK0sReady that does not look at the exit code
isK0sReadyAnyExit(out) == ~out.err /\ out.signal

\* isK0sReady
isK0sReady(out) == ~out.err /\ out.exit = 0 /\ out.signal

\* the timeout test with the duration taken in the wrong unit
TimedOutWrongUnit(elapsed, arg) == elapsed > TimeoutDuration(arg) * 1000

\* time.Since(startTime) > timeoutDuration
TimedOut(elapsed, arg) == elapsed > TimeoutDuration(arg)

\* a second passes while the call is in progress; the ticker fires every
\* TickInterval seconds and drops the tick when one is still buffered
WaitAdvance ==
    /\ wpc # "done"
    /\ wnow' = IF wnow < MaxTime THEN wnow + 1 ELSE wnow
    /\ wphase' = (wphase + 1) % TickInterval
    /\ wtick' = (wtick \/ wphase' = 0)
    /\ UNCHANGED <<wpc, wres, wcancelled, wtimeout, wnever, wexecAfterCancel, wlast>>
    /\ UNCHANGED <<kubeVars, createVars, opsVars>>

\* the caller cancels ctx while the call is in progress
WaitCancel ==
    /\ wpc # "done"
    /\ ~wcancelled
    /\ wcancelled' = TRUE
    /\ UNCHANGED <<wpc, wres, wnow, wphase, wtick, wtimeout, wnever, wexecAfterCancel,
                   wlast>>
    /\ UNCHANGED <<kubeVars, createVars, opsVars>>

\* select takes `case <-ticker.C` and calls isK0sReady: any ready case may be
\* taken, whether or not ctx.Done() is ready too
WaitSelectTick ==
    /\ wpc = "select"
    /\ wtick
    /\ wtick' = FALSE
    /\ wpc' = "exec"
    /\ wexecAfterCancel' = (wexecAfterCancel \/ wcancelled)
    /\ UNCHANGED <<wres, wnow, wphase, wcancelled, wtimeout, wnever, wlast>>
    /\ UNCHANGED <<kubeVars, createVars, opsVars>>

\* select takes `case <-ctx.Done()` and returns ctx.Err()
WaitSelectDone ==
    /\ wpc = "select"
    /\ wcancelled
    /\ wpc' = "done"
    /\ wres' = "cancelled"
    /\ UNCHANGED <<wnow, wphase, wtick, wcancelled, wtimeout, wnever, wexecAfterCancel,
                   wlast>>
    /\ UNCHANGED <<kubeVars, createVars, opsVars>>

\* the status exec returns: ready returns nil, otherwise the timeout is tested
\* and the loop goes back to the select
WaitExecReturn ==
    /\ wpc = "exec"
    /\ \E out \in (IF wcancelled THEN CancelledStatusOutcomes ELSE StatusOutcomes) :
          /\ wnever => ~out.signal
          /\ wlast' = <<out>>
          /\ IF isK0sReady(out)
             THEN wpc' = "done" /\ wres' = "ok"
             ELSE IF TimedOut(wnow, wtimeout)
                  THEN wpc' = "done" /\ wres' = "timeout"
                  ELSE wpc' = "select" /\ wres' = wres
    /\ UNCHANGED <<wnow, wphase, wtick, wcancelled, wtimeout, wnever, wexecAfterCancel>>
    /\ UNCHANGED <<kubeVars, createVars, opsVars>>

KubeParked ==
    /\ kc = AbsentKubeconfig
    /\ lastOp = NoOp
    /\ prevAdd = ""

\* the call has parsed the timeout, read startTime and started the ticker
WaitInit ==
    /\ wpc = "select"
    /\ wres = "none"
    /\ wnow = 0
    /\ wphase = 0
    /\ wtick = FALSE
    /\ wcancelled = FALSE
    /\ wtimeout \in TimeoutArgs
    /\ wnever \in BOOLEAN
    /\ wexecAfterCancel = FALSE
    /\ wlast = <<>>
    /\ KubeParked
    /\ CreateParked
    /\ OpsParked

\* the same call on a node that never signals readiness
WaitNeverReadyInit ==
    /\ WaitInit
    /\ wnever = TRUE

WaitNext ==
    \/ WaitAdvance
    \/ WaitCancel
    \/ WaitSelectTick
    \/ WaitSelectDone
    \/ WaitExecReturn

\* ctx is never cancelled
WaitUncancelledNext ==
    \/ WaitAdvance
    \/ WaitSelectTick
    \/ WaitExecReturn

SpecWait == WaitInit /\ [][WaitNext]_vars

\* time passes, a ready select case is taken, and the engine answers every exec
SpecWaitLive ==
    /\ WaitNeverReadyInit
    /\ [][WaitUncancelledNext]_vars
    /\ WF_vars(WaitAdvance)
    /\ WF_vars(WaitSelectTick)
    /\ WF_vars(WaitExecReturn)

(***************************************************************************)
(* create: createK0sCluster and joinAdditionalNodes                        *)
(***************************************************************************)
ClusterName == "a"

\* cc.Spec.Options.Network after Validate
NetworkName == "k0da"

\* "Controller" is what ToLower turns into "controller"
Roles == {"controller", "worker", "Controller"}

NodeNames == {"", "n1"}

NodeSpecs == {[name |-> n, role |-> r] : n \in NodeNames, r \in Roles}

K0sArgChoices == {<<>>, <<"--debug", "--single">>, <<"--enable-worker">>}

\* what LoadClusterConfig hands to create: no config file gives no nodes
Topologies ==
    {[nodes |-> ns, k0sArgs |-> a, wait |-> w] :
        ns \in BoundedSeq(NodeSpecs, MaxNodes), a \in K0sArgChoices, w \in BOOLEAN}

ConfigHostPath == "etc-k0s/k0s.yaml"

\* WaitForK0sReady under context.Background(): nil or the timeout error
WaitResults == {"ok", "timeout"}

\* ExecInContainer(primary, k0s token create): err and exit code
MintOutcomes == {[err |-> e, exit |-> x] : e \in BOOLEAN, x \in {0, 1}}

\* RunContainer: started; refused; or created and then not started (the
\* Docker backend returns the ContainerStart error and leaves the container)
RunOutcomes == {"ok", "error", "created"}

\* what `k0s kubeconfig admin` prints on the primary and yaml.Unmarshal
\* accepts: the admin credentials, or a document with a context only
CreateAdminCredentials ==
    {[clusters |-> <<[server |-> "https://localhost:6443", ca |-> "ca1"]>>,
      hasContexts |-> TRUE,
      users |-> <<[cert |-> "crt1"]>>],
     [clusters |-> <<>>, hasContexts |-> TRUE, users |-> <<>>]}

\* the first node taken as primary whatever the roles
AlwaysFirstNode(nodes) == IF Len(nodes) > 0 THEN 1 ELSE 0

\* PickPrimaryNode: the first node whose Role is exactly "controller", else
\* the first node; 0 stands for nil
PickPrimaryIndex(nodes) ==
    IF \E i \in 1..Len(nodes) : nodes[i].role = "controller"
    THEN CHOOSE i \in 1..Len(nodes) :
            /\ nodes[i].role = "controller"
            /\ \A j \in 1..(i - 1) : nodes[j].role # "controller"
    ELSE IF Len(nodes) > 0 THEN 1 ELSE 0

\* primaryNode != nil && &cc.Spec.Nodes[i] == primaryNode
SkippedByJoin(nodes, i) == PickPrimaryIndex(nodes) # 0 /\ i = PickPrimaryIndex(nodes)

\* strings.ToLower(strings.TrimSpace(n.Role)), "worker" when empty
JoinRole(role) ==
    LET r == IF role = "Controller" THEN "controller" ELSE role
    IN IF r = "" THEN "worker" ELSE r

\* fmt.Sprintf("%s-%s-%d", clusterName, role, idx)
GeneratedName(clusterName, role, i) == clusterName \o "-" \o role \o "-" \o ToString(i)

\* one token file shared by every node
SharedTokenPath(nodeName) == "tokens/join.token"

\* filepath.Join(tokensDir, nodeName+".token")
hostTokenPath(nodeName) == "tokens/" \o nodeName \o ".token"

\* the mode flag of the first version of createK0sCluster: always a worker
AlwaysEnableWorker(n) == <<"--enable-worker">>

\* --single for one node, --enable-worker otherwise
ModeArgs(n) == IF n = 1 THEN <<"--single">> ELSE <<"--enable-worker">>

\* cmdArgs of the primary
PrimaryArgs(nodes, k0sArgs, cfg) ==
    <<"k0s", "controller", "--no-taints", "--enable-dynamic-config">>
    \o ModeArgs(Len(nodes))
    \o (IF cfg # "" THEN <<"--config", "/etc/k0s/k0s.yaml">> ELSE <<>>)
    \o k0sArgs

\* cmdArgs of a joining node
JoinArgs(role) ==
    IF role = "controller"
    THEN <<"k0s", "controller", "--token-file", "/etc/k0s/join.token">>
    ELSE <<"k0s", "worker", "--token-file", "/etc/k0s/join.token">>

\* the order of the steps with the node started before its token is written
AfterStepRunFirst(step) ==
    CASE step = "stageConfig" -> "stageManifests"
      [] step = "stageManifests" -> "ensureNetwork"
      [] step = "ensureNetwork" -> "runPrimary"
      [] step = "runPrimary" -> "waitPrimary"
      [] step = "waitPrimary" -> "addKubeconfig"
      [] step = "addKubeconfig" -> "joinGate"
      [] step = "mkTokensDir" -> "joinNetwork"
      [] step = "joinNetwork" -> "loop"
      [] step = "mint" -> "runNode"
      [] step = "runNode" -> "writeToken"
      [] step = "writeToken" -> "waitNode"
      [] step = "waitNode" -> "loop"

\* the order of the steps with the network ensured before the manifests are
\* staged
AfterStepNetworkFirst(step) ==
    CASE step = "stageConfig" -> "ensureNetwork"
      [] step = "ensureNetwork" -> "stageManifests"
      [] step = "stageManifests" -> "runPrimary"
      [] step = "runPrimary" -> "waitPrimary"
      [] step = "waitPrimary" -> "addKubeconfig"
      [] step = "addKubeconfig" -> "joinGate"
      [] step = "mkTokensDir" -> "joinNetwork"
      [] step = "joinNetwork" -> "loop"
      [] step = "mint" -> "writeToken"
      [] step = "writeToken" -> "runNode"
      [] step = "runNode" -> "waitNode"
      [] step = "waitNode" -> "loop"

\* the order of the statements of runCreate, createK0sCluster and
\* joinAdditionalNodes
AfterStep(step) ==
    CASE step = "stageConfig" -> "stageManifests"
      [] step = "stageManifests" -> "ensureNetwork"
      [] step = "ensureNetwork" -> "runPrimary"
      [] step = "runPrimary" -> "waitPrimary"
      [] step = "waitPrimary" -> "addKubeconfig"
      [] step = "addKubeconfig" -> "joinGate"
      [] step = "mkTokensDir" -> "joinNetwork"
      [] step = "joinNetwork" -> "loop"
      [] step = "mint" -> "writeToken"
      [] step = "writeToken" -> "runNode"
      [] step = "runNode" -> "waitNode"
      [] step = "waitNode" -> "loop"

\* a failed node start reported and skipped over
AfterFailureSkipNode(step) == IF step = "runNode" THEN "waitNode" ELSE "done"

\* `return fmt.Errorf(...)`: every failing step ends create
AfterFailure(step) == "done"

Event(ev, node, name, token) == [ev |-> ev, node |-> node, name |-> name, token |-> token]

\* the step returns an error
Fails(step) ==
    /\ pc' = AfterFailure(step)
    /\ result' = "error"
    /\ failedAt' = step

\* create returns nil
Succeeds ==
    /\ pc' = "done"
    /\ result' = "ok"

\* ContainerCreate and `podman run --name` are handed opts.Name, and the
\* engine keeps container names unique: a name in use is refused
NameTaken(name) == \E c \in containers : c.name = name

\* cc.WriteEffectiveK0sConfig(cfgDir)
CreateStageConfig ==
    /\ pc = "stageConfig"
    /\ \E ok \in BOOLEAN :
          IF ok
          THEN /\ cfgPath' \in {"", ConfigHostPath}
               /\ pc' = AfterStep("stageConfig")
               /\ UNCHANGED <<result, failedAt>>
          ELSE Fails("stageConfig") /\ UNCHANGED cfgPath
    /\ UNCHANGED <<topo, ni, idx, loc, mintCount, containers, networks, tokenFiles, log>>
    /\ UNCHANGED <<kubeVars, waitVars, opsVars>>

\* utils.CopyManifestsToDir(cc, hostK0daManifestsPath)
CreateStageManifests ==
    /\ pc = "stageManifests"
    /\ \E ok \in BOOLEAN :
          IF ok
          THEN pc' = AfterStep("stageManifests") /\ UNCHANGED <<result, failedAt>>
          ELSE Fails("stageManifests")
    /\ UNCHANGED <<topo, cfgPath, ni, idx, loc, mintCount, containers, networks,
                   tokenFiles, log>>
    /\ UNCHANGED <<kubeVars, waitVars, opsVars>>

\* b.EnsureNetwork(ctx, networkName) in createK0sCluster
CreateEnsureNetwork ==
    /\ pc = "ensureNetwork"
    /\ \E ok \in BOOLEAN :
          IF ok
          THEN /\ networks' = networks \cup {NetworkName}
               /\ log' = Append(log, Event("network", 0, NetworkName, 0))
               /\ pc' = AfterStep("ensureNetwork")
               /\ UNCHANGED <<result, failedAt>>
          ELSE Fails("ensureNetwork") /\ UNCHANGED <<networks, log>>
    /\ UNCHANGED <<topo, cfgPath, ni, idx, loc, mintCount, containers, tokenFiles>>
    /\ UNCHANGED <<kubeVars, waitVars, opsVars>>

\* b.RunContainer of the primary, named after the cluster
CreateRunPrimary ==
    /\ pc = "runPrimary"
    /\ \E out \in RunOutcomes :
          /\ NameTaken(ClusterName) => out = "error"
          /\ LET c == [name |-> ClusterName, node |-> PickPrimaryIndex(topo.nodes),
                       args |-> PrimaryArgs(topo.nodes, topo.k0sArgs, cfgPath),
                       mount |-> "", started |-> (out = "ok")]
             IN IF out = "ok"
                THEN /\ containers' = containers \cup {c}
                     /\ log' = Append(log, Event("primary", c.node, ClusterName, 0))
                     /\ pc' = AfterStep("runPrimary")
                     /\ UNCHANGED <<result, failedAt>>
                ELSE /\ containers' = IF out = "created" THEN containers \cup {c}
                                      ELSE containers
                     /\ Fails("runPrimary")
                     /\ UNCHANGED log
    /\ UNCHANGED <<topo, cfgPath, ni, idx, loc, mintCount, networks, tokenFiles>>
    /\ UNCHANGED <<kubeVars, waitVars, opsVars>>

\* if wait { utils.WaitForK0sReady(...) }
CreateWaitPrimary ==
    /\ pc = "waitPrimary"
    /\ IF topo.wait
       THEN \E r \in WaitResults :
               IF r = "ok"
               THEN /\ log' = Append(log, Event("ready", PickPrimaryIndex(topo.nodes),
                                                ClusterName, 0))
                    /\ pc' = AfterStep("waitPrimary")
                    /\ UNCHANGED <<result, failedAt>>
               ELSE Fails("waitPrimary") /\ UNCHANGED log
       ELSE /\ pc' = AfterStep("addKubeconfig")
            /\ UNCHANGED <<result, failedAt, log>>
    /\ UNCHANGED <<topo, cfgPath, ni, idx, loc, mintCount, containers, networks,
                   tokenFiles>>
    /\ UNCHANGED <<kubeVars, waitVars, opsVars>>

\* utils.AddClusterToKubeconfig(ctx, b, name, containerName)
CreateAddKubeconfig ==
    /\ pc = "addKubeconfig"
    /\ \E ok \in BOOLEAN :
          IF ok
          THEN /\ \E creds \in CreateAdminCredentials, port \in HostPorts :
                     kc' = AddedKubeconfig(kc, ClusterName, creds, port)
               /\ pc' = AfterStep("addKubeconfig")
               /\ UNCHANGED <<result, failedAt>>
          ELSE Fails("addKubeconfig") /\ UNCHANGED kc
    /\ UNCHANGED <<topo, cfgPath, ni, idx, loc, mintCount, containers, networks,
                   tokenFiles, log>>
    /\ UNCHANGED <<lastOp, prevAdd, waitVars, opsVars>>

\* runCreate: join the other nodes when more than one node is declared
CreateJoinGate ==
    /\ pc = "joinGate"
    /\ IF Len(topo.nodes) > 1
       THEN pc' = "mkTokensDir" /\ UNCHANGED result
       ELSE Succeeds
    /\ UNCHANGED <<topo, failedAt, cfgPath, ni, idx, loc, mintCount, containers,
                   networks, tokenFiles, log>>
    /\ UNCHANGED <<kubeVars, waitVars, opsVars>>

\* os.MkdirAll(tokensDir, 0755)
JoinMkTokensDir ==
    /\ pc = "mkTokensDir"
    /\ \E ok \in BOOLEAN :
          IF ok
          THEN pc' = AfterStep("mkTokensDir") /\ UNCHANGED <<result, failedAt>>
          ELSE Fails("mkTokensDir")
    /\ UNCHANGED <<topo, cfgPath, ni, idx, loc, mintCount, containers, networks,
                   tokenFiles, log>>
    /\ UNCHANGED <<kubeVars, waitVars, opsVars>>

\* b.EnsureNetwork(ctx, networkName) in joinAdditionalNodes
JoinEnsureNetwork ==
    /\ pc = "joinNetwork"
    /\ \E ok \in BOOLEAN :
          IF ok
          THEN /\ networks' = networks \cup {NetworkName}
               /\ log' = Append(log, Event("network", 0, NetworkName, 0))
               /\ pc' = AfterStep("joinNetwork")
               /\ UNCHANGED <<result, failedAt>>
          ELSE Fails("joinNetwork") /\ UNCHANGED <<networks, log>>
    /\ UNCHANGED <<topo, cfgPath, ni, idx, loc, mintCount, containers, tokenFiles>>
    /\ UNCHANGED <<kubeVars, waitVars, opsVars>>

\* for i := range cc.Spec.Nodes: leave the loop, skip the primary, or take
\* the node and lower-case its role
JoinLoop ==
    /\ pc = "loop"
    /\ IF ni > Len(topo.nodes)
       THEN Succeeds /\ UNCHANGED <<ni, loc>>
       ELSE IF SkippedByJoin(topo.nodes, ni)
            THEN ni' = ni + 1 /\ UNCHANGED <<pc, result, loc>>
            ELSE /\ loc' = [role |-> JoinRole(topo.nodes[ni].role), name |-> "",
                            token |-> 0]
                 /\ pc' = "mint"
                 /\ UNCHANGED <<ni, result>>
    /\ UNCHANGED <<topo, failedAt, cfgPath, idx, mintCount, containers, networks,
                   tokenFiles, log>>
    /\ UNCHANGED <<kubeVars, waitVars, opsVars>>

\* the mint taken as done whenever the exec ran, whatever its exit code
MintRanAtAll(out) == ~out.err

\* `if err != nil || exit != 0 { return ... }` after the token-mint exec
MintSucceeded(out) == ~out.err /\ out.exit = 0

\* what the exec of the mint reported
ExecEvent(out) ==
    Event(IF out.err THEN "execError" ELSE "execExit", ni, ClusterName, out.exit)

\* exec `k0s token create --role=<role>` on the primary, then name the node
JoinMintToken ==
    /\ pc = "mint"
    /\ \E out \in MintOutcomes :
          IF MintSucceeded(out)
          THEN /\ mintCount' = mintCount + 1
               /\ LET declared == topo.nodes[ni].name
                  IN IF declared = ""
                     THEN /\ loc' = [loc EXCEPT
                                       !.name = GeneratedName(ClusterName, loc.role, idx),
                                       !.token = mintCount + 1]
                          /\ idx' = idx + 1
                     ELSE /\ loc' = [loc EXCEPT !.name = declared,
                                                !.token = mintCount + 1]
                          /\ idx' = idx
               /\ log' = log \o <<ExecEvent(out),
                                  Event("mint", ni, ClusterName, mintCount + 1)>>
               /\ pc' = AfterStep("mint")
               /\ UNCHANGED <<result, failedAt>>
          ELSE /\ Fails("mint")
               /\ log' = Append(log, ExecEvent(out))
               /\ UNCHANGED <<mintCount, loc, idx>>
    /\ UNCHANGED <<topo, cfgPath, ni, containers, networks, tokenFiles>>
    /\ UNCHANGED <<kubeVars, waitVars, opsVars>>

\* os.WriteFile(hostTokenPath, token+"\n", 0600)
JoinWriteToken ==
    /\ pc = "writeToken"
    /\ \E ok \in BOOLEAN :
          IF ok
          THEN /\ tokenFiles' =
                     {f \in tokenFiles : f.path # hostTokenPath(loc.name)}
                     \cup {[path |-> hostTokenPath(loc.name), token |-> loc.token]}
               /\ log' = Append(log, Event("write", ni, hostTokenPath(loc.name), loc.token))
               /\ pc' = AfterStep("writeToken")
               /\ UNCHANGED <<result, failedAt>>
          ELSE Fails("writeToken") /\ UNCHANGED <<tokenFiles, log>>
    /\ UNCHANGED <<topo, cfgPath, ni, idx, loc, mintCount, containers, networks>>
    /\ UNCHANGED <<kubeVars, waitVars, opsVars>>

\* b.RunContainer of the joining node
JoinRunNode ==
    /\ pc = "runNode"
    /\ \E out \in RunOutcomes :
          /\ NameTaken(loc.name) => out = "error"
          /\ LET c == [name |-> loc.name, node |-> ni, args |-> JoinArgs(loc.role),
                       mount |-> hostTokenPath(loc.name), started |-> (out = "ok")]
             IN IF out = "ok"
                THEN /\ containers' = containers \cup {c}
                     /\ log' = Append(log, Event("run", ni, loc.name, 0))
                     /\ pc' = AfterStep("runNode")
                     /\ UNCHANGED <<result, failedAt>>
                ELSE /\ containers' = IF out = "created" THEN containers \cup {c}
                                      ELSE containers
                     /\ Fails("runNode")
                     /\ UNCHANGED log
    /\ UNCHANGED <<topo, cfgPath, ni, idx, loc, mintCount, networks, tokenFiles>>
    /\ UNCHANGED <<kubeVars, waitVars, opsVars>>

\* if wait && role == "controller" { utils.WaitForK0sReady(...) }, then the
\* next node
JoinWaitNode ==
    /\ pc = "waitNode"
    /\ IF topo.wait /\ loc.role = "controller"
       THEN \E r \in WaitResults :
               IF r = "ok"
               THEN /\ pc' = AfterStep("waitNode")
                    /\ ni' = ni + 1
                    /\ UNCHANGED <<result, failedAt>>
               ELSE Fails("waitNode") /\ UNCHANGED ni
       ELSE /\ pc' = AfterStep("waitNode")
            /\ ni' = ni + 1
            /\ UNCHANGED <<result, failedAt>>
    /\ UNCHANGED <<topo, cfgPath, idx, loc, mintCount, containers, networks,
                   tokenFiles, log>>
    /\ UNCHANGED <<kubeVars, waitVars, opsVars>>

\* runCreate has loaded the config and detected the engine
CreateInit ==
    /\ topo \in Topologies
    /\ pc = "stageConfig"
    /\ result = "none"
    /\ failedAt = "none"
    /\ cfgPath = ""
    /\ ni = 1
    /\ idx = 0
    /\ loc = [role |-> "", name |-> "", token |-> 0]
    /\ mintCount = 0
    /\ containers = {}
    /\ networks = {}
    /\ tokenFiles = {}
    /\ log = <<>>
    /\ KubeParked
    /\ WaitParked
    /\ OpsParked

CreateNext ==
    \/ CreateStageConfig
    \/ CreateStageManifests
    \/ CreateEnsureNetwork
    \/ CreateRunPrimary
    \/ CreateWaitPrimary
    \/ CreateAddKubeconfig
    \/ CreateJoinGate
    \/ JoinMkTokensDir
    \/ JoinEnsureNetwork
    \/ JoinLoop
    \/ JoinMintToken
    \/ JoinWriteToken
    \/ JoinRunNode
    \/ JoinWaitNode

SpecCreate == CreateInit /\ [][CreateNext]_vars

(***************************************************************************)
(* create: properties                                                      *)
(***************************************************************************)
Has(args, flag) == \E i \in DOMAIN args : args[i] = flag

NonPrimaryIndices(nodes) == {i \in 1..Len(nodes) : i # PickPrimaryIndex(nodes)}

RECURSIVE ExpectedJoinFrom(_, _)
ExpectedJoinFrom(nodes, i) ==
    IF i > Len(nodes) THEN <<>>
    ELSE (IF i = PickPrimaryIndex(nodes) THEN <<>>
          ELSE <<[ev |-> "mint", node |-> i], [ev |-> "write", node |-> i],
                 [ev |-> "run", node |-> i]>>)
         \o ExpectedJoinFrom(nodes, i + 1)

IsJoinEvent(e) == e.ev \in {"mint", "write", "run"}

JoinEvents ==
    LET js == SelectSeq(log, IsJoinEvent)
    IN [k \in 1..Len(js) |-> [ev |-> js[k].ev, node |-> js[k].node]]

IsPrefix(s, t) == Len(s) <= Len(t) /\ \A k \in 1..Len(s) : s[k] = t[k]

CreateSucceeded == pc = "done" /\ result = "ok"

\* C1: in a create of a multi-node topology the join steps taken so far are
\* always an initial part of: for each declared node other than the primary,
\* in declared order, mint its token on the primary, write the token to the
\* host file, start the node's container; every mint is an exec on the
\* primary; and a create that succeeds has taken all of these steps.
JoinIsSequential ==
    /\ IsPrefix(JoinEvents, ExpectedJoinFrom(topo.nodes, 1))
    /\ \A k \in 1..Len(log) : log[k].ev = "mint" => log[k].name = ClusterName
    /\ (CreateSucceeded /\ Len(topo.nodes) > 1)
          => JoinEvents = ExpectedJoinFrom(topo.nodes, 1)
    /\ Len(topo.nodes) <= 1 => JoinEvents = <<>>

JoinIsSequentialWitness ==
    /\ CreateSucceeded
    /\ Len(topo.nodes) = 3
    /\ PickPrimaryIndex(topo.nodes) = 2
    /\ Len(JoinEvents) = 6

JoinedContainers == {c \in containers : c.name # ClusterName}

TokenAt(path) == {f.token : f \in {g \in tokenFiles : g.path = path}}

MintedFor(i) == {log[k].token : k \in {j \in 1..Len(log) : log[j].ev = "mint" /\ log[j].node = i}}

WritesFor(i) == {k \in 1..Len(log) : log[k].ev = "write" /\ log[k].node = i}

\* C2: after a successful create of a topology with at least one non-primary
\* node there are as many token files as non-primary nodes, each non-primary
\* node had exactly one write, its container mounts a file holding the token
\* minted for it, and no two nodes' files hold the same token.
OneTokenFilePerNode ==
    (CreateSucceeded /\ NonPrimaryIndices(topo.nodes) # {} /\ Len(topo.nodes) > 1) =>
        /\ Cardinality(tokenFiles) = Cardinality(NonPrimaryIndices(topo.nodes))
        /\ Cardinality({f.path : f \in tokenFiles}) = Cardinality(tokenFiles)
        /\ \A i \in NonPrimaryIndices(topo.nodes) :
              /\ Cardinality(WritesFor(i)) = 1
              /\ \E c \in JoinedContainers :
                    c.node = i /\ TokenAt(c.mount) = MintedFor(i)
        /\ \A c1, c2 \in JoinedContainers :
              c1.node # c2.node => TokenAt(c1.mount) \cap TokenAt(c2.mount) = {}

OneTokenFilePerNodeWitness ==
    /\ CreateSucceeded
    /\ Cardinality(NonPrimaryIndices(topo.nodes)) = 2
    /\ Cardinality(tokenFiles) = 2

PrimaryContainers == {c \in containers : c.name = ClusterName}

\* C3: the primary of a one-node topology is launched with --single and
\* never --enable-worker; the primary of a topology of two or more nodes is
\* launched with --enable-worker and --no-taints and never --single.
PrimaryModeFlags ==
    \A c \in PrimaryContainers :
        /\ Len(topo.nodes) = 1 =>
              Has(c.args, "--single") /\ ~Has(c.args, "--enable-worker")
        /\ Len(topo.nodes) >= 2 =>
              /\ Has(c.args, "--enable-worker")
              /\ Has(c.args, "--no-taints")
              /\ ~Has(c.args, "--single")

\* C3 (amended): the primary of a one-node topology is launched with
\* --single, and with --enable-worker exactly when the global extra k0s
\* arguments supply it; the primary of two or more nodes is launched with
\* --enable-worker and --no-taints, and with --single exactly when the global
\* extra k0s arguments supply it.
PrimaryModeFlagsButExtraArgs ==
    \A c \in PrimaryContainers :
        /\ Len(topo.nodes) = 1 =>
              /\ Has(c.args, "--single")
              /\ Has(c.args, "--enable-worker") <=> Has(topo.k0sArgs, "--enable-worker")
        /\ Len(topo.nodes) >= 2 =>
              /\ Has(c.args, "--enable-worker")
              /\ Has(c.args, "--no-taints")
              /\ Has(c.args, "--single") <=> Has(topo.k0sArgs, "--single")

PrimaryModeFlagsWitness ==
    \E c \in PrimaryContainers :
        /\ Len(topo.nodes) = 1
        /\ Has(topo.k0sArgs, "--enable-worker")
        /\ Has(c.args, "--single")
        /\ c.started

\* C10: once a step of create has failed, create has returned an error and
\* is over: no later step runs, nothing more is started, and no container
\* create made is ever stopped or removed.
FailureAbortsWithoutRollback ==
    /\ [](failedAt # "none" => (pc = "done" /\ result = "error"))
    /\ [][failedAt # "none" => UNCHANGED createVars]_vars
    /\ [][\A c \in containers : c \in containers']_vars

FailureAbortsWitness ==
    /\ failedAt = "runNode"
    /\ pc = "done"
    /\ result = "error"
    /\ ni < Len(topo.nodes)
    /\ \E c \in containers : c.started
    /\ \E c \in containers : ~c.started


(***************************************************************************)
(* WaitForK0sReady: properties                                             *)
(***************************************************************************)
\* C8: once ctx is cancelled during the wait, no further status exec is
\* issued and the call returns the cancellation error, never nil and never
\* the timeout error.
WaitCancelAborts ==
    wcancelled =>
        /\ ~wexecAfterCancel
        /\ wpc = "done" => wres = "cancelled"

\* C9: on a node that never signals readiness, with ctx never cancelled, the
\* call returns, what it returns is the timeout error, and it returns it only
\* after more than the timeout has elapsed.
WaitTimesOut ==
    /\ <>(wpc = "done" /\ wres = "timeout")
    /\ [](wpc = "done" => (wres = "timeout" /\ wnow > TimeoutDuration(wtimeout)))

\* the timeout error returned after polling more than once
WaitTimesOutWitness ==
    /\ wpc = "done"
    /\ wres = "timeout"
    /\ wtimeout = [ok |-> TRUE, secs |-> 3]
    /\ wnow >= 4

(***************************************************************************)
(* Kubeconfig store: properties                                            *)
(***************************************************************************)
HasEntry(list, nm) == \E i \in 1..Len(list) : list[i].name = nm

CountEntries(list, nm) == Cardinality({i \in 1..Len(list) : list[i].name = nm})

WellFormedCreds(creds) ==
    Len(creds.clusters) > 0 /\ creds.hasContexts /\ Len(creds.users) > 0

\* C4: starting from no file, after any adds and removes, for every local
\* name N the file holds a cluster, a context and a user named k0da-N or none
\* of the three, and every context k0da-N references cluster and user k0da-N.
KubeTripleAlways ==
    \A n \in LocalNames :
        LET nm == FormatName(n) IN
        /\ HasEntry(kc.clusters, nm) = HasEntry(kc.contexts, nm)
        /\ HasEntry(kc.contexts, nm) = HasEntry(kc.users, nm)
        /\ \A i \in 1..Len(kc.contexts) :
              kc.contexts[i].name = nm =>
                  kc.contexts[i].cluster = nm /\ kc.contexts[i].user = nm

\* C5: whatever the file held before, right after add(N) followed by
\* remove(N) no cluster, context or user entry is named k0da-N.
AddThenRemoveLeavesNone ==
    (lastOp.op = "remove" /\ prevAdd = lastOp.name) =>
        LET nm == FormatName(lastOp.name) IN
        /\ ~HasEntry(kc.clusters, nm)
        /\ ~HasEntry(kc.contexts, nm)
        /\ ~HasEntry(kc.users, nm)

\* add(N) then remove(N) done on a file that still holds entries of another name
AddThenRemoveWitness ==
    /\ lastOp.op = "remove"
    /\ prevAdd = lastOp.name
    /\ Len(kc.clusters) > 0
    /\ Len(kc.users) > 0

\* C6: right after a successful add(N) with well-formed admin credentials,
\* whatever stale or duplicated entries the file held, it holds exactly one
\* cluster, one context and one user named k0da-N, they carry the data of
\* this add, and current-context is k0da-N.
AddIsIdempotent ==
    (lastOp.op = "add" /\ WellFormedCreds(lastOp.creds)) =>
        LET nm == FormatName(lastOp.name) IN
        /\ CountEntries(kc.clusters, nm) = 1
        /\ CountEntries(kc.contexts, nm) = 1
        /\ CountEntries(kc.users, nm) = 1
        /\ \A i \in 1..Len(kc.clusters) :
              kc.clusters[i].name = nm =>
                  /\ kc.clusters[i].server = ServerURL(lastOp.port)
                  /\ kc.clusters[i].ca = lastOp.creds.clusters[1].ca
        /\ \A i \in 1..Len(kc.contexts) :
              kc.contexts[i].name = nm =>
                  kc.contexts[i].cluster = nm /\ kc.contexts[i].user = nm
        /\ \A i \in 1..Len(kc.users) :
              kc.users[i].name = nm => kc.users[i].cert = lastOp.creds.users[1].cert
        /\ kc.current = nm

\* a second successful add(N) in a row, with different credentials than the
\* entry it replaces would carry
AddIsIdempotentWitness ==
    /\ lastOp.op = "add"
    /\ prevAdd = lastOp.name
    /\ WellFormedCreds(lastOp.creds)
    /\ lastOp.creds.clusters[1].ca = "ca2"
    /\ Len(kc.clusters) > 1

\* C7: right after remove(N) on a file whose current-context was k0da-N,
\* current-context names a context still in the file, or is empty when no
\* context remains; it is not k0da-N.
RemoveCurrentFallsBack ==
    (lastOp.op = "remove" /\ lastOp.cur0 = FormatName(lastOp.name)) =>
        /\ kc.current # FormatName(lastOp.name)
        /\ IF Len(kc.contexts) = 0
           THEN kc.current = ""
           ELSE HasEntry(kc.contexts, kc.current)

\* remove(N) of the current context with another context left to fall back to
RemoveCurrentWitness ==
    /\ lastOp.op = "remove"
    /\ lastOp.cur0 = FormatName(lastOp.name)
    /\ kc.current # ""
    /\ HasEntry(kc.contexts, kc.current)

(***************************************************************************)
(* Container labels (cmd/create.go buildLabelsForNode)                     *)
(***************************************************************************)
LabelCluster == "k0da.cluster"

LabelClusterName == "k0da.cluster.name"

LabelClusterType == "k0da.cluster.type"

LabelNodeName == "k0da.node.name"

LabelNodeRole == "k0da.node.role"

\* a node that declares no labels
NoLabels == [k \in {} |-> ""]

\* the identity labels, then `labels[k] = v` for every label the node declares
buildLabelsForNode(clusterName, nodeName, role, declared) ==
    declared @@ ((LabelCluster :> "true") @@ (LabelClusterName :> clusterName)
                 @@ (LabelClusterType :> "k0s") @@ (LabelNodeName :> nodeName)
                 @@ (LabelNodeRole :> role))

\* the engine's label filter `label=k=v`
MatchesLabel(labels, k, v) == k \in DOMAIN labels /\ labels[k] = v

\* fmt.Sprintf("%s-var", name)
VolumeName(name) == name \o "-var"

(***************************************************************************)
(* delete: runDelete against what create left in the engine                *)
(***************************************************************************)
\* most nodes of the cluster that is deleted
MaxClusterNodes == 2

\* labels a node of the deleted cluster declares
DeleteLabelDecls == {NoLabels, (LabelClusterName :> "b")}

DeleteNodeSpecs ==
    {[name |-> n, role |-> r, labels |-> l] :
        n \in NodeNames, r \in {"controller", "worker"}, l \in DeleteLabelDecls}

\* the container name create gives node i: the cluster name for the primary,
\* the declared name, or the generated name with the join loop's counter
MadeName(nodes, i) ==
    IF i = PickPrimaryIndex(nodes) THEN ClusterName
    ELSE IF nodes[i].name # "" THEN nodes[i].name
    ELSE GeneratedName(ClusterName, JoinRole(nodes[i].role),
            Cardinality({j \in 1..(i - 1) :
                            j # PickPrimaryIndex(nodes) /\ nodes[j].name = ""}))

\* the labels create gives node i
MadeLabels(nodes, i) ==
    IF i = PickPrimaryIndex(nodes)
    THEN buildLabelsForNode(ClusterName, ClusterName, "controller", nodes[i].labels)
    ELSE buildLabelsForNode(ClusterName, MadeName(nodes, i), JoinRole(nodes[i].role),
                            nodes[i].labels)

\* what a successful create of the topology leaves in the engine; a config
\* without nodes gives the primary alone
MadeContainers(nodes, running) ==
    IF Len(nodes) = 0
    THEN {[name |-> ClusterName, ord |-> 0, running |-> running,
           labels |-> buildLabelsForNode(ClusterName, ClusterName, "controller", NoLabels)]}
    ELSE {[name |-> MadeName(nodes, i), ord |-> i, running |-> running,
           labels |-> MadeLabels(nodes, i)] : i \in 1..Len(nodes)}

\* the engine admits a topology only if its container names differ
DeleteTopologies ==
    {ns \in BoundedSeq(DeleteNodeSpecs, MaxClusterNodes) :
        \A i, j \in 1..Len(ns) : i # j => MadeName(ns, i) # MadeName(ns, j)}

\* a one-node cluster "b" next to the cluster that is deleted
OtherCluster ==
    {[name |-> "b", ord |-> 9, running |-> TRUE,
      labels |-> buildLabelsForNode("b", "b", "controller", NoLabels)]}

\* the kubeconfig after create added the cluster, or never touched
DeleteKubeconfigs ==
    {AbsentKubeconfig}
    \cup {AddedKubeconfig(AbsentKubeconfig, ClusterName, creds, port) :
             creds \in CreateAdminCredentials, port \in HostPorts}

\* filter of ListContainersByLabel(ctx, {LabelClusterName: clusterName}, true)
ListByClusterName(cs, clusterName) ==
    {c \in cs : MatchesLabel(c.labels, LabelClusterName, clusterName)}

\* `for _, c := range list`: the next container of the list
NextTodo(todo) ==
    CHOOSE n \in todo :
        \A m \in todo :
            \A c, d \in engContainers : (c.name = n /\ d.name = m) => c.ord <= d.ord

DeleteReturns(res) ==
    /\ dpc' = "done"
    /\ dres' = res

deleteFrame ==
    <<waitVars, createVars, lastOp, prevAdd, updateVars, portsVars, labelVars, detectVars, execVars, callVars>>

\* runtime.Detect(ctx, runtime.DetectOptions{})
DeleteDetect ==
    /\ dpc = "detect"
    /\ \E ok \in BOOLEAN :
          IF ok THEN dpc' = "list" /\ UNCHANGED dres
          ELSE DeleteReturns("error")
    /\ UNCHANGED <<engContainers, engVolumes, clusterDir, dmade, dlist, dtodo, kc>>
    /\ UNCHANGED deleteFrame

\* r.ListContainersByLabel: an error and an empty list both end delete
DeleteList ==
    /\ dpc = "list"
    /\ \E ok \in BOOLEAN :
          LET found == {c.name : c \in ListByClusterName(engContainers, ClusterName)}
          IN IF ok /\ found # {}
             THEN /\ dlist' = found
                  /\ dtodo' = found
                  /\ dpc' = "stop"
                  /\ UNCHANGED dres
             ELSE DeleteReturns("error") /\ UNCHANGED <<dlist, dtodo>>
    /\ UNCHANGED <<engContainers, engVolumes, clusterDir, dmade, kc>>
    /\ UNCHANGED deleteFrame

\* first loop: ContainerIsRunning, then StopContainer with its error dropped
DeleteStopOne ==
    /\ dpc = "stop"
    /\ IF dtodo = {}
       THEN /\ dpc' = "remove"
            /\ dtodo' = dlist
            /\ UNCHANGED engContainers
       ELSE \E probed \in BOOLEAN, stopped \in BOOLEAN :
               LET n == NextTodo(dtodo)
               IN /\ engContainers' =
                        {IF c.name = n /\ c.running /\ probed /\ stopped
                         THEN [c EXCEPT !.running = FALSE] ELSE c : c \in engContainers}
                  /\ dtodo' = dtodo \ {n}
                  /\ UNCHANGED dpc
    /\ UNCHANGED <<engVolumes, clusterDir, dmade, dres, dlist, kc>>
    /\ UNCHANGED deleteFrame

\* second loop: RemoveContainer (a failure is a warning), then VolumeExists
\* and RemoveVolume of <name>-var (a failure is a warning); the engine does
\* not remove a volume a container still uses
DeleteRemoveOne ==
    /\ dpc = "remove"
    /\ IF dtodo = {}
       THEN /\ dpc' = "kubeconfig"
            /\ UNCHANGED <<engContainers, engVolumes, dtodo>>
       ELSE \E removed \in BOOLEAN, seen \in BOOLEAN, volRemoved \in BOOLEAN :
               LET n == NextTodo(dtodo)
               IN /\ engContainers' =
                        IF removed THEN {c \in engContainers : c.name # n}
                        ELSE engContainers
                  /\ engVolumes' =
                        IF removed /\ seen /\ volRemoved /\ VolumeName(n) \in engVolumes
                        THEN engVolumes \ {VolumeName(n)}
                        ELSE engVolumes
                  /\ dtodo' = dtodo \ {n}
                  /\ UNCHANGED dpc
    /\ UNCHANGED <<clusterDir, dmade, dres, dlist, kc>>
    /\ UNCHANGED deleteFrame

\* utils.RemoveClusterFromKubeconfig(clusterName): a failure is a warning
DeleteKubeconfig ==
    /\ dpc = "kubeconfig"
    /\ \E ok \in BOOLEAN :
          kc' = IF ok THEN RemovedKubeconfig(kc, ClusterName) ELSE kc
    /\ dpc' = "dir"
    /\ UNCHANGED <<engContainers, engVolumes, clusterDir, dmade, dres, dlist, dtodo>>
    /\ UNCHANGED deleteFrame

\* os.RemoveAll of the cluster directory (a failure is a warning), return nil
DeleteDir ==
    /\ dpc = "dir"
    /\ \E ok \in BOOLEAN : clusterDir' = (clusterDir /\ ~ok)
    /\ DeleteReturns("ok")
    /\ UNCHANGED <<engContainers, engVolumes, dmade, dlist, dtodo, kc>>
    /\ UNCHANGED deleteFrame

\* a create of the cluster has succeeded, maybe next to another cluster, and
\* `delete a` starts
DeleteInit ==
    /\ \E ns \in DeleteTopologies, running \in BOOLEAN, other \in BOOLEAN :
          LET made == MadeContainers(ns, running)
          IN /\ engContainers = made \cup (IF other THEN OtherCluster ELSE {})
             /\ engVolumes = {VolumeName(c.name) : c \in engContainers}
             /\ dmade = {c.name : c \in made}
    /\ clusterDir = TRUE
    /\ dpc = "detect"
    /\ dres = "none"
    /\ dlist = {}
    /\ dtodo = {}
    /\ kc \in DeleteKubeconfigs
    /\ lastOp = NoOp
    /\ prevAdd = ""
    /\ WaitParked
    /\ CreateParked
    /\ UpdateParked
    /\ PortsParked
    /\ LabelsParked
    /\ DetectParked
    /\ ExecParked
    /\ CallParked

DeleteNext ==
    \/ DeleteDetect
    \/ DeleteList
    \/ DeleteStopOne
    \/ DeleteRemoveOne
    \/ DeleteKubeconfig
    \/ DeleteDir

SpecDelete == DeleteInit /\ [][DeleteNext]_vars

\* C11: once delete(N) has returned success the engine holds no container
\* labelled with cluster name N and no <name>-var volume of a node of N, the
\* kubeconfig holds no entry named k0da-N, and every container create(N) made
\* was on the list delete worked through.
DeleteLeavesNothing ==
    dres = "ok" =>
        /\ ListByClusterName(engContainers, ClusterName) = {}
        /\ \A n \in dmade : VolumeName(n) \notin engVolumes
        /\ ~HasEntry(kc.clusters, FormatName(ClusterName))
        /\ ~HasEntry(kc.contexts, FormatName(ClusterName))
        /\ ~HasEntry(kc.users, FormatName(ClusterName))
        /\ dmade \subseteq dlist

(***************************************************************************)
(* update: runUpdate                                                       *)
(***************************************************************************)
\* strings.TrimSpace(clusterName) == ""
IsBlank(str) == str \in {"", " "}

UpdateNames == {ClusterName, " "}

\* []string{"k0s", "kc", "apply", "-f", "/etc/k0s/k0s.yaml"}
ApplyConfigCommand == <<"k0s", "kc", "apply", "-f", "/etc/k0s/k0s.yaml">>

\* ExecInContainer: err and exit code
ExecOutcomes == {[err |-> e, exit |-> x] : e \in BOOLEAN, x \in {0, 1}}

\* the order of the steps with the apply issued before the config is written
AfterUpdateStepApplyFirst(step) ==
    CASE step = "checkName" -> "loadConfig"
      [] step = "loadConfig" -> "detect"
      [] step = "detect" -> "mkdir"
      [] step = "mkdir" -> "stageManifests"
      [] step = "stageManifests" -> "apply"
      [] step = "apply" -> "stageConfig"
      [] step = "stageConfig" -> "done"

\* the order of the statements of runUpdate
AfterUpdateStep(step) ==
    CASE step = "checkName" -> "loadConfig"
      [] step = "loadConfig" -> "detect"
      [] step = "detect" -> "mkdir"
      [] step = "mkdir" -> "stageManifests"
      [] step = "stageManifests" -> "stageConfig"
      [] step = "stageConfig" -> "apply"
      [] step = "apply" -> "done"

\* the step succeeded: on to the next, `return nil` after the last
UpdateProceeds(step) ==
    /\ upc' = AfterUpdateStep(step)
    /\ ures' = IF AfterUpdateStep(step) = "done" THEN "ok" ELSE ures

\* `return fmt.Errorf(...)`
UpdateFails ==
    /\ upc' = "done"
    /\ ures' = "error"

updateFrame ==
    <<kubeVars, waitVars, createVars, deleteVars, portsVars, labelVars, detectVars, execVars, callVars>>

\* the cluster name must not be blank
UpdateCheckName ==
    /\ upc = "checkName"
    /\ IF IsBlank(uname) THEN UpdateFails ELSE UpdateProceeds("checkName")
    /\ UNCHANGED <<uname, umanifests, ustaged, ucalls>>
    /\ UNCHANGED updateFrame

\* k0daconfig.LoadClusterConfig
UpdateLoadConfig ==
    /\ upc = "loadConfig"
    /\ \E ok \in BOOLEAN :
          IF ok THEN UpdateProceeds("loadConfig") ELSE UpdateFails
    /\ UNCHANGED <<uname, umanifests, ustaged, ucalls>>
    /\ UNCHANGED updateFrame

\* runtime.Detect
UpdateDetect ==
    /\ upc = "detect"
    /\ \E ok \in BOOLEAN :
          IF ok THEN UpdateProceeds("detect") ELSE UpdateFails
    /\ UNCHANGED <<uname, umanifests, ustaged, ucalls>>
    /\ UNCHANGED updateFrame

\* os.MkdirAll(clusterDir, 0755)
UpdateMkdir ==
    /\ upc = "mkdir"
    /\ \E ok \in BOOLEAN :
          IF ok THEN UpdateProceeds("mkdir") ELSE UpdateFails
    /\ UNCHANGED <<uname, umanifests, ustaged, ucalls>>
    /\ UNCHANGED updateFrame

\* utils.CopyManifestsToDir: nil at once when the config lists no manifests
UpdateStageManifests ==
    /\ upc = "stageManifests"
    /\ \E ok \in BOOLEAN :
          IF ok \/ ~umanifests
          THEN /\ ustaged' = ustaged \cup {"manifests"}
               /\ UpdateProceeds("stageManifests")
          ELSE UpdateFails /\ UNCHANGED ustaged
    /\ UNCHANGED <<uname, umanifests, ucalls>>
    /\ UNCHANGED updateFrame

\* cc.WriteEffectiveK0sConfig(etcDir)
UpdateStageConfig ==
    /\ upc = "stageConfig"
    /\ \E ok \in BOOLEAN :
          IF ok
          THEN /\ ustaged' = ustaged \cup {"config"}
               /\ UpdateProceeds("stageConfig")
          ELSE UpdateFails /\ UNCHANGED ustaged
    /\ UNCHANGED <<uname, umanifests, ucalls>>
    /\ UNCHANGED updateFrame

\* r.ExecInContainer(ctx, clusterName, k0s kc apply ...): the command can
\* exit zero only in a running container of that name
UpdateApply ==
    /\ upc = "apply"
    /\ ucalls' = Append(ucalls, [op |-> "exec", target |-> uname,
                                 argv |-> ApplyConfigCommand])
    /\ \E out \in ExecOutcomes :
          /\ (~out.err /\ out.exit = 0) =>
                \E c \in engContainers : c.name = uname /\ c.running
          /\ IF ~out.err /\ out.exit = 0 THEN UpdateProceeds("apply") ELSE UpdateFails
    /\ UNCHANGED <<uname, umanifests, ustaged>>
    /\ UNCHANGED updateFrame

\* `update` starts against an engine that holds the cluster or does not
UpdateInit ==
    /\ uname \in UpdateNames
    /\ umanifests \in BOOLEAN
    /\ upc = "checkName"
    /\ ures = "none"
    /\ ustaged = {}
    /\ ucalls = <<>>
    /\ \E ns \in DeleteTopologies, running \in BOOLEAN, present \in BOOLEAN :
          /\ engContainers = IF present THEN MadeContainers(ns, running) ELSE {}
          /\ engVolumes = {VolumeName(c.name) : c \in engContainers}
          /\ dmade = {c.name : c \in engContainers}
    /\ clusterDir \in BOOLEAN
    /\ dpc = "done"
    /\ dres = "none"
    /\ dlist = {}
    /\ dtodo = {}
    /\ KubeParked
    /\ WaitParked
    /\ CreateParked
    /\ PortsParked
    /\ LabelsParked
    /\ DetectParked
    /\ ExecParked
    /\ CallParked

UpdateNext ==
    \/ UpdateCheckName
    \/ UpdateLoadConfig
    \/ UpdateDetect
    \/ UpdateMkdir
    \/ UpdateStageManifests
    \/ UpdateStageConfig
    \/ UpdateApply

SpecUpdate == UpdateInit /\ [][UpdateNext]_vars

\* C12: update never changes the engine's containers, volumes or networks;
\* the calls it makes on the backend are at most one, an exec of the
\* configuration apply in the primary's container, made only after the
\* manifests and the effective configuration were both staged successfully;
\* and an update that succeeds has made that call.
UpdateOnlyApplies ==
    /\ [][UNCHANGED <<engContainers, engVolumes, networks, containers>>]_vars
    /\ [](/\ Len(ucalls) <= 1
          /\ \A k \in 1..Len(ucalls) :
                /\ ucalls[k].op = "exec"
                /\ ucalls[k].target = ClusterName
                /\ ucalls[k].argv = ApplyConfigCommand
                /\ {"manifests", "config"} \subseteq ustaged
          /\ ures = "ok" => Len(ucalls) = 1)

UpdateOnlyAppliesWitness ==
    /\ ures = "ok"
    /\ Len(ucalls) = 1
    /\ Cardinality(engContainers) = 2
    /\ umanifests

(***************************************************************************)
(* The primary's published ports (createK0sCluster lines 415-453)          *)
(***************************************************************************)
\* most ports the primary node declares
MaxPorts == 2

\* the API server's port inside the container
APIPort == 6443

\* a host IP no interface of this host carries: net.Listen on it fails
UnboundHostIP == "10.9.9.9"

\* config.Port values a node declares
DeclaredPorts ==
    {[containerPort |-> c, protocol |-> pr, hostIP |-> ip, hostPort |-> hp] :
        c \in {APIPort, 80}, pr \in {"", "TCP", "udp"}, ip \in {"", UnboundHostIP},
        hp \in {0, 7443}}

\* strings.ToLower
ToLower(str) == IF str = "TCP" THEN "tcp" ELSE str

\* the port the ephemeral listener was given
EphemeralPorts == {40001}

\* buildPublishPortsFromNode: lower-case the protocol, "tcp" when empty
buildPublishPortsFromNode(ports) ==
    [k \in 1..Len(ports) |->
        [containerPort |-> ports[k].containerPort,
         protocol |-> IF ToLower(ports[k].protocol) = "" THEN "tcp"
                      ELSE ToLower(ports[k].protocol),
         hostIP |-> ports[k].hostIP,
         hostPort |-> ports[k].hostPort]]

\* ps.ContainerPort == 6443 && (ps.Protocol == "" || ToLower(ps.Protocol) == "tcp")
IsAPIEntry(ps) ==
    ps.containerPort = APIPort /\ (ps.protocol = "" \/ ToLower(ps.protocol) = "tcp")

\* ensureAPIExposed: append 6443/tcp when no entry publishes it
ensureAPIExposed(pub) ==
    IF \E k \in 1..Len(pub) : IsAPIEntry(pub[k]) THEN pub
    ELSE Append(pub, [containerPort |-> APIPort, protocol |-> "tcp", hostIP |-> "",
                      hostPort |-> 0])

\* the first 6443/tcp entry of the list, 0 when there is none
FirstAPIEntry(pub) ==
    IF \E k \in 1..Len(pub) : IsAPIEntry(pub[k])
    THEN CHOOSE k \in 1..Len(pub) :
            IsAPIEntry(pub[k]) /\ \A j \in 1..(k - 1) : ~IsAPIEntry(pub[j])
    ELSE 0

\* AllocateHostPort(hostIP): the port of a listener on hostIP:0, or 0 and an
\* error when the listen fails
AllocateHostPort(hostIP) ==
    {[port |-> 0, err |-> TRUE]}
    \cup (IF hostIP = UnboundHostIP THEN {}
          ELSE {[port |-> q, err |-> FALSE] : q \in EphemeralPorts})

portsFrame ==
    <<kubeVars, waitVars, createVars, deleteVars, updateVars, labelVars, detectVars, execVars, callVars>>

\* publish := buildPublishPortsFromNode(node)
PortsBuild ==
    /\ ppc = "build"
    /\ publish' = buildPublishPortsFromNode(pdeclared)
    /\ ppc' = "expose"
    /\ UNCHANGED <<pdeclared, pallocs, pcreated>>
    /\ UNCHANGED portsFrame

\* publish = ensureAPIExposed(publish)
PortsExpose ==
    /\ ppc = "expose"
    /\ publish' = ensureAPIExposed(publish)
    /\ ppc' = "bind"
    /\ UNCHANGED <<pdeclared, pallocs, pcreated>>
    /\ UNCHANGED portsFrame

\* publish = ensureAPIPortBound(publish): the first 6443/tcp entry with host
\* port 0 gets the allocated port `if err == nil && p > 0`
PortsBind ==
    /\ ppc = "bind"
    /\ LET k == FirstAPIEntry(publish)
       IN IF k # 0 /\ publish[k].hostPort = 0
          THEN \E a \in AllocateHostPort(publish[k].hostIP) :
                  IF ~a.err /\ a.port > 0
                  THEN /\ publish' = [publish EXCEPT ![k].hostPort = a.port]
                       /\ pallocs' = pallocs \cup {a.port}
                  ELSE UNCHANGED <<publish, pallocs>>
          ELSE UNCHANGED <<publish, pallocs>>
    /\ ppc' = "network"
    /\ UNCHANGED <<pdeclared, pcreated>>
    /\ UNCHANGED portsFrame

\* b.EnsureNetwork: a failure returns before any container is created
PortsEnsureNetwork ==
    /\ ppc = "network"
    /\ \E ok \in BOOLEAN : ppc' = IF ok THEN "run" ELSE "done"
    /\ UNCHANGED <<pdeclared, publish, pallocs, pcreated>>
    /\ UNCHANGED portsFrame

\* b.RunContainer(ctx, RunContainerOptions{..., Publish: publish, ...})
PortsRunContainer ==
    /\ ppc = "run"
    /\ pcreated' = Append(pcreated, publish)
    /\ ppc' = "done"
    /\ UNCHANGED <<pdeclared, publish, pallocs>>
    /\ UNCHANGED portsFrame

\* createK0sCluster has picked the primary node and reads its ports
PortsInit ==
    /\ pdeclared \in BoundedSeq(DeclaredPorts, MaxPorts)
    /\ ppc = "build"
    /\ publish = <<>>
    /\ pallocs = {}
    /\ pcreated = <<>>
    /\ KubeParked
    /\ WaitParked
    /\ CreateParked
    /\ DeleteParked
    /\ UpdateParked
    /\ LabelsParked
    /\ DetectParked
    /\ ExecParked
    /\ CallParked

PortsNext ==
    \/ PortsBuild
    \/ PortsExpose
    \/ PortsBind
    \/ PortsEnsureNetwork
    \/ PortsRunContainer

SpecPorts == PortsInit /\ [][PortsNext]_vars

\* C13: every container-creation call of the primary is handed a published
\* entry for container port 6443/tcp whose host port is nonzero; a host port
\* that was not declared is one AllocateHostPort handed out before the call.
PrimaryAPIPortIsExplicit ==
    \A n \in 1..Len(pcreated) :
        \E k \in 1..Len(pcreated[n]) :
            /\ IsAPIEntry(pcreated[n][k])
            /\ pcreated[n][k].hostPort # 0
            /\ (\A j \in 1..Len(pdeclared) :
                   IsAPIEntry(buildPublishPortsFromNode(pdeclared)[j])
                      => pdeclared[j].hostPort = 0)
                  => pcreated[n][k].hostPort \in pallocs

(***************************************************************************)
(* create: the primary node                                                *)
(***************************************************************************)
\* node p is the first node whose role is controller, or the first node when
\* no node's role is controller
IsDeclaredPrimary(nodes, p) ==
    \/ /\ nodes[p].role = "controller"
       /\ \A j \in 1..(p - 1) : nodes[j].role # "controller"
    \/ /\ \A j \in 1..Len(nodes) : nodes[j].role # "controller"
       /\ p = 1

RunsOf(i) == {k \in 1..Len(log) : log[k].ev = "run" /\ log[k].node = i}

\* C14: in a create of a non-empty topology the container launched as the
\* primary belongs to the first node whose role is controller, or to the
\* first node when there is no controller; no join step is ever taken for that
\* node; every joined container belongs to another node and is launched with
\* a join token; and when create succeeds every other node has been started
\* exactly once.
ExactlyOnePrimary ==
    Len(topo.nodes) > 0 =>
        /\ Cardinality({p \in 1..Len(topo.nodes) : IsDeclaredPrimary(topo.nodes, p)}) = 1
        /\ Cardinality(PrimaryContainers) <= 1
        /\ \A c \in PrimaryContainers :
              /\ IsDeclaredPrimary(topo.nodes, c.node)
              /\ ~Has(c.args, "--token-file")
        /\ \A c \in JoinedContainers :
              /\ ~IsDeclaredPrimary(topo.nodes, c.node)
              /\ Has(c.args, "--token-file")
        /\ \A k \in 1..Len(log) :
              IsJoinEvent(log[k]) => ~IsDeclaredPrimary(topo.nodes, log[k].node)
        /\ \A i \in 1..Len(topo.nodes) : Cardinality(RunsOf(i)) <= 1
        /\ (CreateSucceeded /\ Len(topo.nodes) > 1) =>
              \A i \in 1..Len(topo.nodes) :
                 Cardinality(RunsOf(i)) = IF IsDeclaredPrimary(topo.nodes, i) THEN 0 ELSE 1

ExactlyOnePrimaryWitness ==
    /\ CreateSucceeded
    /\ Len(topo.nodes) = 3
    /\ topo.nodes[1].role = "worker"
    /\ topo.nodes[2].role = "Controller"
    /\ topo.nodes[3].role = "controller"
    /\ \E c \in PrimaryContainers : c.node = 3
    /\ Cardinality(JoinedContainers) = 2

(***************************************************************************)
(* Labels: a container from buildLabelsForNode to the label selectors      *)
(***************************************************************************)
\* labels a node declares in the cluster config
LabelDecls ==
    {NoLabels, ("tier" :> "db"), (LabelClusterName :> "b"), (LabelCluster :> "false"),
     (LabelNodeRole :> "etcd"), (LabelNodeName :> "x")}

\* nodes create starts: the primary is named after the cluster and launched
\* as a controller, a joined node has its own name and role
LabelledNodes ==
    {[cluster |-> cl, primary |-> TRUE, name |-> cl, role |-> "controller", labels |-> l] :
        cl \in LocalNames, l \in LabelDecls}
    \cup {[cluster |-> cl, primary |-> FALSE, name |-> n, role |-> r, labels |-> l] :
        cl \in LocalNames, n \in {"n1", "n2"}, r \in {"controller", "worker"},
        l \in LabelDecls}

labelsFrame ==
    <<kubeVars, waitVars, createVars, updateVars, portsVars, detectVars, execVars, callVars>>

\* labels := buildLabelsForNode(...); b.RunContainer(..., Labels: labels, ...)
LabelsRunContainer ==
    /\ lpc = "run"
    /\ engContainers' = engContainers \cup
          {[name |-> lnode.name, ord |-> 1, running |-> TRUE,
            labels |-> buildLabelsForNode(lnode.cluster, lnode.name, lnode.role,
                                          lnode.labels)]}
    /\ engVolumes' = engVolumes \cup {VolumeName(lnode.name)}
    /\ dmade' = dmade \cup {lnode.name}
    /\ lpc' = "list"
    /\ UNCHANGED <<lnode, lfound, lshown>>
    /\ UNCHANGED <<clusterDir, dpc, dres, dlist, dtodo>>
    /\ UNCHANGED labelsFrame

\* delete's ListContainersByLabel by cluster name, and getK0daClusters:
\* containers with k0da.cluster=true grouped by the cluster-name label, the
\* container name when that label is blank
LabelsList ==
    /\ lpc = "list"
    /\ lfound' = {c.name : c \in ListByClusterName(engContainers, lnode.cluster)}
    /\ lshown' = {IF LabelClusterName \in DOMAIN c.labels
                     /\ ~IsBlank(c.labels[LabelClusterName])
                  THEN c.labels[LabelClusterName] ELSE c.name :
                     c \in {d \in engContainers : MatchesLabel(d.labels, LabelCluster, "true")}}
    /\ lpc' = "done"
    /\ UNCHANGED lnode
    /\ UNCHANGED deleteVars
    /\ UNCHANGED labelsFrame

\* create is about to start one node's container in an empty engine
LabelsInit ==
    /\ lnode \in LabelledNodes
    /\ lpc = "run"
    /\ lfound = {}
    /\ lshown = {}
    /\ KubeParked
    /\ WaitParked
    /\ CreateParked
    /\ DeleteParked
    /\ UpdateParked
    /\ PortsParked
    /\ DetectParked
    /\ ExecParked
    /\ CallParked

LabelsNext ==
    \/ LabelsRunContainer
    \/ LabelsList

SpecLabels == LabelsInit /\ [][LabelsNext]_vars

\* C15: every container create starts for cluster N carries k0da.cluster =
\* true, k0da.cluster.name = N, the cluster-type label, and the name and role
\* of its node as k0da.node.name and k0da.node.role, whatever labels the node
\* declares; so the selector by cluster name lists exactly the containers
\* made for N and `list` shows exactly N.
LabelsIdentifyNode ==
    /\ \A c \in engContainers :
          /\ MatchesLabel(c.labels, LabelCluster, "true")
          /\ MatchesLabel(c.labels, LabelClusterName, lnode.cluster)
          /\ MatchesLabel(c.labels, LabelClusterType, "k0s")
          /\ MatchesLabel(c.labels, LabelNodeName, lnode.name)
          /\ MatchesLabel(c.labels, LabelNodeRole, lnode.role)
    /\ lpc = "done" => (lfound = dmade /\ lshown = {lnode.cluster})

(***************************************************************************)
(* runtime.Detect                                                          *)
(***************************************************************************)
\* a socket file is missing, exists without a listener, or accepts connections
SockStatus == {"absent", "dead", "live"}

\* the head of getDockerSocketCandidates
DockerCandidates == <<"/var/run/docker.sock", "/home/u/.colima/docker.sock">>

\* $XDG_RUNTIME_DIR/podman/podman.sock, /run/podman/podman.sock and
\* $TMPDIR/podman/podman-machine-default.sock
PodmanCandidates ==
    <<"/run/user/1000/podman/podman.sock", "/run/podman/podman.sock",
      "/tmp/podman/podman-machine-default.sock">>

PodmanSockStates ==
    {<<"absent", "absent", "absent">>, <<"dead", "absent", "live">>,
     <<"absent", "live", "absent">>, <<"absent", "absent", "live">>,
     <<"absent", "absent", "dead">>}

RootfulURI == "ssh://root@127.0.0.1:2222/run/podman/podman.sock"

RootlessURI == "ssh://core@127.0.0.1:2222/run/user/501/podman/podman.sock"

\* conns: what `podman system connection list` holds: nothing, a default
\* rootless connection, or that and a rootful one; machine: what `podman
\* machine inspect` reports
DetectEnvs ==
    [optRuntime : {"", "docker", "podman"},
     envRuntime : {"", "podman"},
     optSocket : {"", "/opt.sock"},
     envSocket : {"", "unix:///env.sock"},
     dockerHost : {"", "unix:///dh.sock"},
     dockerSocks : [1..2 -> SockStatus],
     podmanSocks : PodmanSockStates,
     conns : {"none", "rootless", "rootful"},
     machine : {"unknown", "rootless", "rootful"}]

\* normalizeSocket: an absolute path and a unix:/path both become unix:///path
normalizeSocket(str) ==
    IF str = "" THEN str
    ELSE IF str = "/opt.sock" THEN "unix://" \o str
    ELSE IF str = "unix:/opt.sock" THEN "unix://" \o "/opt.sock"
    ELSE str

\* tryDockerSocketCandidates: 0, or the first candidate that exists and that
\* the probe reaches
FirstLiveDockerCandidate(env) ==
    IF \E k \in 1..Len(DockerCandidates) : env.dockerSocks[k] = "live"
    THEN CHOOSE k \in 1..Len(DockerCandidates) :
            /\ env.dockerSocks[k] = "live"
            /\ \A j \in 1..(k - 1) : env.dockerSocks[j] # "live"
    ELSE 0

\* tryPodmanConnectionList: the rootful connection when there is one, else
\* the default one: [uri, identity]
tryPodmanConnectionList(env) ==
    CASE env.conns = "rootful" -> [uri |-> RootfulURI, identity |-> "root.key"]
      [] env.conns = "rootless" -> [uri |-> RootlessURI, identity |-> "core.key"]
      [] OTHER -> [uri |-> "", identity |-> ""]

\* strings.HasPrefix(u, "ssh://root@")
HasRootPrefix(uri) == uri = RootfulURI

\* findPreferredPodmanConnection: the name of the rootful connection, else of
\* the default one, "" when the list is empty
findPreferredPodmanConnection(env) ==
    CASE env.conns = "rootful" -> "podman-machine-default-root"
      [] env.conns = "rootless" -> "podman-machine-default"
      [] OTHER -> ""

\* a file known to be missing or without a listener answers no ping
Unreachable(env, socket) ==
    \/ socket = ""
    \/ \E k \in 1..Len(DockerCandidates) :
          socket = "unix://" \o DockerCandidates[k] /\ env.dockerSocks[k] # "live"
    \/ \E k \in 1..Len(PodmanCandidates) :
          socket = "unix://" \o PodmanCandidates[k] /\ env.podmanSocks[k] # "live"

\* NewDockerRuntime(ctx, socket) and NewPodmanRuntime(ctx, socket, identity)
\* when they connect: the Podman backend talks to a named connection when
\* it finds one and to the socket only otherwise
Backend(kind, env, socket) ==
    IF kind = "docker"
    THEN [kind |-> "docker", socket |-> socket, connection |-> ""]
    ELSE [kind |-> "podman", socket |-> socket,
          connection |-> findPreferredPodmanConnection(env)]

\* whether the constructor may connect: Docker pings the socket, Podman runs
\* `podman version` against the connection or the socket
MayConnect(kind, env, socket) ==
    IF kind = "docker" THEN ~Unreachable(env, socket)
    ELSE findPreferredPodmanConnection(env) # "" \/ ~Unreachable(env, socket)

DetectError == [kind |-> "error", socket |-> "", connection |-> ""]

\* auto-detection with Podman tried before Docker
PodmanFirstOrder == <<"podman", "docker">>

\* with no runtime requested: NewDockerRuntime, then NewPodmanRuntime
AutoDetectOrder == <<"docker", "podman">>

detectFrame == <<kubeVars, waitVars, createVars, deleteVars, updateVars, portsVars,
                 labelVars, execVars, callVars>>

\* runtime := ToLower(TrimSpace(opts.Runtime)), else K0DA_RUNTIME
DetectRuntime ==
    /\ detPc = "runtime"
    /\ detRuntime' = IF detEnv.optRuntime # "" THEN detEnv.optRuntime
                     ELSE detEnv.envRuntime
    /\ detPc' = "socket"
    /\ UNCHANGED <<detEnv, detSocket, detIdentity, detSetBy, detProbed, detTried, detRet>>
    /\ UNCHANGED detectFrame

\* socket := opts.SocketOverride, else K0DA_SOCKET, else (docker or no
\* runtime) DOCKER_HOST
DetectSocket ==
    /\ detPc = "socket"
    /\ LET src == IF detEnv.optSocket # "" THEN "option"
                  ELSE IF detEnv.envSocket # "" THEN "envSocket"
                  ELSE IF detRuntime \in {"docker", ""} /\ detEnv.dockerHost # ""
                       THEN "dockerHost"
                  ELSE "none"
           val == CASE src = "option" -> detEnv.optSocket
                    [] src = "envSocket" -> detEnv.envSocket
                    [] src = "dockerHost" -> detEnv.dockerHost
                    [] OTHER -> ""
       IN /\ detSocket' = val
          /\ detSetBy' = IF src = "none" THEN detSetBy
                         ELSE Append(detSetBy, [step |-> src, value |-> val])
    /\ detPc' = "guess"
    /\ UNCHANGED <<detEnv, detRuntime, detIdentity, detProbed, detTried, detRet>>
    /\ UNCHANGED detectFrame

\* `if socket == ""`: guess per runtime. Docker: the first reachable
\* candidate, else the default path. Podman: the connection list, else the
\* XDG socket if the file exists, else /run/podman/podman.sock if the file
\* exists, else the TMPDIR socket if the probe reaches it
DetectGuess ==
    /\ detPc = "guess"
    /\ IF detSocket # ""
       THEN UNCHANGED <<detSocket, detIdentity, detSetBy, detProbed>>
       ELSE IF detRuntime \in {"docker", ""}
       THEN LET k == FirstLiveDockerCandidate(detEnv)
            IN IF k # 0
               THEN /\ detSocket' = "unix://" \o DockerCandidates[k]
                    /\ detProbed' = detProbed \cup {DockerCandidates[k]}
                    /\ detSetBy' = Append(detSetBy, [step |-> "candidate",
                                            value |-> "unix://" \o DockerCandidates[k]])
                    /\ UNCHANGED detIdentity
               ELSE /\ detSocket' = "unix:///var/run/docker.sock"
                    /\ detSetBy' = Append(detSetBy, [step |-> "default",
                                            value |-> "unix:///var/run/docker.sock"])
                    /\ UNCHANGED <<detIdentity, detProbed>>
       ELSE LET c == tryPodmanConnectionList(detEnv)
            IN IF c.uri # ""
               THEN /\ detSocket' = c.uri
                    /\ detIdentity' = c.identity
                    /\ detSetBy' = Append(detSetBy, [step |-> "connections",
                                                     value |-> c.uri])
                    /\ UNCHANGED detProbed
               ELSE IF detEnv.podmanSocks[1] # "absent"
               THEN /\ detSocket' = "unix://" \o PodmanCandidates[1]
                    /\ detSetBy' = Append(detSetBy, [step |-> "stat",
                                            value |-> "unix://" \o PodmanCandidates[1]])
                    /\ UNCHANGED <<detIdentity, detProbed>>
               ELSE IF detEnv.podmanSocks[2] # "absent"
               THEN /\ detSocket' = "unix://" \o PodmanCandidates[2]
                    /\ detSetBy' = Append(detSetBy, [step |-> "stat",
                                            value |-> "unix://" \o PodmanCandidates[2]])
                    /\ UNCHANGED <<detIdentity, detProbed>>
               ELSE IF detEnv.podmanSocks[3] = "live"
               THEN /\ detSocket' = "unix://" \o PodmanCandidates[3]
                    /\ detProbed' = detProbed \cup {PodmanCandidates[3]}
                    /\ detSetBy' = Append(detSetBy, [step |-> "candidate",
                                            value |-> "unix://" \o PodmanCandidates[3]])
                    /\ UNCHANGED detIdentity
               ELSE UNCHANGED <<detSocket, detIdentity, detSetBy, detProbed>>
    /\ detPc' = "normalize"
    /\ UNCHANGED <<detEnv, detRuntime, detTried, detRet>>
    /\ UNCHANGED detectFrame

\* socket = normalizeSocket(socket)
DetectNormalize ==
    /\ detPc = "normalize"
    /\ detSocket' = normalizeSocket(detSocket)
    /\ detPc' = "rootful"
    /\ UNCHANGED <<detEnv, detRuntime, detIdentity, detSetBy, detProbed, detTried, detRet>>
    /\ UNCHANGED detectFrame

\* `if runtime == "podman"` and the machine reports rootless: take the
\* rootful connection or return the error
DetectRootful ==
    /\ detPc = "rootful"
    /\ IF detRuntime = "podman" /\ detEnv.machine = "rootless"
       THEN LET c == tryPodmanConnectionList(detEnv)
            IN IF HasRootPrefix(c.uri)
               THEN /\ detSocket' = c.uri
                    /\ detIdentity' = c.identity
                    /\ detSetBy' = Append(detSetBy, [step |-> "rootful", value |-> c.uri])
                    /\ detPc' = "connect"
                    /\ UNCHANGED detRet
               ELSE /\ detRet' = DetectError
                    /\ detPc' = "done"
                    /\ UNCHANGED <<detSocket, detIdentity, detSetBy>>
       ELSE /\ detPc' = IF detRuntime # "" THEN "connect" ELSE "tryFirst"
            /\ UNCHANGED <<detSocket, detIdentity, detSetBy, detRet>>
    /\ UNCHANGED <<detEnv, detRuntime, detProbed, detTried>>
    /\ UNCHANGED detectFrame

\* `if runtime != ""`: the constructor of the requested backend
DetectConnect ==
    /\ detPc = "connect"
    /\ \E ok \in BOOLEAN :
          /\ ok => MayConnect(detRuntime, detEnv, detSocket)
          /\ detTried' = Append(detTried, [backend |-> detRuntime, ok |-> ok])
          /\ detRet' = IF ok THEN Backend(detRuntime, detEnv, detSocket) ELSE DetectError
    /\ detPc' = "done"
    /\ UNCHANGED <<detEnv, detRuntime, detSocket, detIdentity, detSetBy, detProbed>>
    /\ UNCHANGED detectFrame

\* no runtime requested: `if socket == ""` the candidates once more, then the
\* first constructor
DetectTryFirst ==
    /\ detPc = "tryFirst"
    /\ LET k == FirstLiveDockerCandidate(detEnv)
           sock == IF detSocket = "" /\ k # 0 THEN "unix://" \o DockerCandidates[k]
                   ELSE detSocket
       IN /\ detSocket' = sock
          /\ detProbed' = IF detSocket = "" /\ k # 0
                          THEN detProbed \cup {DockerCandidates[k]} ELSE detProbed
          /\ \E ok \in BOOLEAN :
                /\ ok => MayConnect(AutoDetectOrder[1], detEnv, sock)
                /\ detTried' = Append(detTried, [backend |-> AutoDetectOrder[1], ok |-> ok])
                /\ IF ok
                   THEN detRet' = Backend(AutoDetectOrder[1], detEnv, sock) /\ detPc' = "done"
                   ELSE detPc' = "trySecond" /\ UNCHANGED detRet
    /\ UNCHANGED <<detEnv, detRuntime, detIdentity, detSetBy>>
    /\ UNCHANGED detectFrame

\* the first constructor failed: the second one, and the error when it fails
DetectTrySecond ==
    /\ detPc = "trySecond"
    /\ \E ok \in BOOLEAN :
          /\ ok => MayConnect(AutoDetectOrder[2], detEnv, detSocket)
          /\ detTried' = Append(detTried, [backend |-> AutoDetectOrder[2], ok |-> ok])
          /\ detRet' = IF ok THEN Backend(AutoDetectOrder[2], detEnv, detSocket)
                       ELSE DetectError
    /\ detPc' = "done"
    /\ UNCHANGED <<detEnv, detRuntime, detSocket, detIdentity, detSetBy, detProbed>>
    /\ UNCHANGED detectFrame

DetectInit ==
    /\ detEnv \in DetectEnvs
    /\ detPc = "runtime"
    /\ detRuntime = ""
    /\ detSocket = ""
    /\ detIdentity = ""
    /\ detSetBy = <<>>
    /\ detProbed = {}
    /\ detTried = <<>>
    /\ detRet = NoBackend
    /\ KubeParked
    /\ WaitParked
    /\ CreateParked
    /\ DeleteParked
    /\ UpdateParked
    /\ PortsParked
    /\ LabelsParked
    /\ ExecParked
    /\ CallParked

DetectNext ==
    \/ DetectRuntime
    \/ DetectSocket
    \/ DetectGuess
    \/ DetectNormalize
    \/ DetectRootful
    \/ DetectConnect
    \/ DetectTryFirst
    \/ DetectTrySecond

SpecDetect == DetectInit /\ [][DetectNext]_vars

(***************************************************************************)
(* Properties of runtime.Detect                                            *)
(***************************************************************************)
NoRuntimeRequested == detEnv.optRuntime = "" /\ detEnv.envRuntime = ""

DetectReturned == detPc = "done" /\ detRet.kind \in {"docker", "podman"}

\* C16: when no engine is requested, detection attempts Docker first and
\* Podman only after Docker failed to connect; it returns the first backend
\* that connects, and it returns the error exactly when neither connects.
AutoDetectDockerThenPodman ==
    NoRuntimeRequested =>
        /\ Len(detTried) <= 2
        /\ Len(detTried) >= 1 => detTried[1].backend = "docker"
        /\ Len(detTried) = 2 => ~detTried[1].ok /\ detTried[2].backend = "podman"
        /\ detPc = "done" =>
              /\ Len(detTried) >= 1
              /\ detTried[1].ok => detRet.kind = "docker" /\ Len(detTried) = 1
              /\ ~detTried[1].ok =>
                    /\ Len(detTried) = 2
                    /\ detTried[2].ok => detRet.kind = "podman"
              /\ detRet.kind = "error" <=> \A k \in 1..Len(detTried) : ~detTried[k].ok

AutoDetectWitness ==
    /\ NoRuntimeRequested
    /\ detPc = "done"
    /\ Len(detTried) = 2
    /\ detRet.kind = "podman"

\* the address the returned backend talks to: the Podman backend passes
\* --connection when it holds a connection name and CONTAINER_HOST otherwise
SocketInUse == IF detRet.connection # "" THEN detRet.connection ELSE detRet.socket

\* C17: the socket a backend is connected with is the first match of the
\* explicit socket parameter, the socket environment variable, DOCKER_HOST
\* (Docker or no engine only) and the first reachable known path; a value
\* set by an earlier step is never replaced by a later one, so an explicit
\* socket parameter is the one used, for both engines.
ExplicitSocketIsUsed ==
    /\ \A k \in 1..Len(detSetBy) : detSetBy[k].value = detSetBy[1].value
    /\ DetectReturned /\ detEnv.optSocket # ""
          => SocketInUse = normalizeSocket(detEnv.optSocket)
    /\ DetectReturned /\ detEnv.optSocket = "" /\ detEnv.envSocket # ""
          => SocketInUse = normalizeSocket(detEnv.envSocket)

\* the steps that pick a socket file from the known paths
FilePathSteps == {"candidate", "default", "stat"}

\* C18: no socket file path is selected by detection, for either engine,
\* unless a connectivity probe to it succeeded.
SelectedPathsWereProbed ==
    \A k \in 1..Len(detSetBy) :
        detSetBy[k].step \in FilePathSteps
            => \E path \in detProbed : detSetBy[k].value = "unix://" \o path

\* the connection the returned Podman backend runs its commands on
OnRootlessConnection ==
    \/ detRet.connection = "podman-machine-default"
    \/ detRet.connection = "" /\ detRet.socket = RootlessURI

\* C19: whenever detection resolves to Podman, requested or reached by
\* auto-detection, and the machine reports rootless, detection returns a
\* backend on a rootful connection or fails; never a backend on a rootless
\* connection.
RootlessMachineNeverReturned ==
    detPc = "done" /\ detRet.kind = "podman" /\ detEnv.machine = "rootless"
        => ~OnRootlessConnection

(***************************************************************************)
(* ExecInContainer, in the Docker and the Podman backend                   *)
(***************************************************************************)
\* exit statuses of the `docker exec` / `podman exec` process; -1 is what
\* ExitError.ExitCode() gives for a process ended by a signal
ExitCodes == {-1, 0, 1, 2, 125, 126, 127}

CommandOutputs == {"", "text"}

\* what cmd.CombinedOutput() can return: nil after exit status 0, an
\* *exec.ExitError after any other end of the started process, and another
\* error when the process could not be started
CombinedOutputResults ==
    {[out |-> o, err |-> "nil", code |-> 0] : o \in CommandOutputs}
        \cup {[out |-> o, err |-> "ExitError", code |-> c] :
                 o \in CommandOutputs, c \in ExitCodes \ {0}}
        \cup {[out |-> "", err |-> "not started", code |-> 0]}

\* a result that turns the ExitError into the returned error
ExitErrorReturned(res) ==
    IF res.err # "nil"
    THEN [out |-> res.out, code |-> 1, err |-> res.err]
    ELSE [out |-> res.out, code |-> 0, err |-> "nil"]

\* Docker.ExecInContainer after cmd.CombinedOutput()
DockerExecInContainer(res) ==
    IF res.err # "nil"
    THEN IF res.err = "ExitError"
         THEN [out |-> res.out, code |-> res.code, err |-> "nil"]
         ELSE [out |-> res.out, code |-> 1, err |-> res.err]
    ELSE [out |-> res.out, code |-> 0, err |-> "nil"]

\* Podman.ExecInContainer after cmd.CombinedOutput()
PodmanExecInContainer(res) ==
    IF res.err # "nil"
    THEN IF res.err = "ExitError"
         THEN [out |-> res.out, code |-> res.code, err |-> "nil"]
         ELSE [out |-> res.out, code |-> 1, err |-> res.err]
    ELSE [out |-> res.out, code |-> 0, err |-> "nil"]

execFrame == <<kubeVars, waitVars, createVars, deleteVars, updateVars, portsVars,
               labelVars, detectVars, callVars>>

\* out, err := cmd.CombinedOutput()
ExecRun ==
    /\ execPc = "call"
    /\ execCmd' \in CombinedOutputResults
    /\ execPc' = "ran"
    /\ UNCHANGED <<execBackend, execRet>>
    /\ UNCHANGED execFrame

\* the three returns of ExecInContainer
ExecReturn ==
    /\ execPc = "ran"
    /\ execRet' = IF execBackend = "docker" THEN DockerExecInContainer(execCmd)
                  ELSE PodmanExecInContainer(execCmd)
    /\ execPc' = "done"
    /\ UNCHANGED <<execBackend, execCmd>>
    /\ UNCHANGED execFrame

\* the caller issues the next command on the same backend
ExecAgain ==
    /\ execPc = "done"
    /\ execPc' = "call"
    /\ UNCHANGED <<execBackend, execCmd, execRet>>
    /\ UNCHANGED execFrame

ExecInit ==
    /\ execBackend \in {"docker", "podman"}
    /\ execPc = "call"
    /\ execCmd = NoExec
    /\ execRet = NoExec
    /\ KubeParked
    /\ WaitParked
    /\ CreateParked
    /\ DeleteParked
    /\ UpdateParked
    /\ PortsParked
    /\ LabelsParked
    /\ DetectParked
    /\ CallParked

ExecNext ==
    \/ ExecRun
    \/ ExecReturn
    \/ ExecAgain

SpecExec == ExecInit /\ [][ExecNext]_vars

\* C20: in both backends ExecInContainer returns a nil error together with
\* the nonzero exit code whenever the command ran and exited nonzero, and a
\* non-nil error only when the command could not be run at all.
ExecErrorOnlyWhenNotRun ==
    execPc = "done" /\ execBackend # "" =>
        /\ execCmd.err = "ExitError" =>
              execRet.err = "nil" /\ execRet.code = execCmd.code /\ execRet.code # 0
        /\ execRet.err # "nil" => execCmd.err = "not started"
        /\ execRet.out = execCmd.out

ExecErrorOnlyWhenNotRunWitness ==
    /\ execPc = "done"
    /\ execBackend = "podman"
    /\ execCmd.err = "ExitError"
    /\ execRet = [out |-> "text", code |-> 2, err |-> "nil"]

(***************************************************************************)
(* GetContainerPort                                                        *)
(***************************************************************************)
callFrame == <<kubeVars, waitVars, createVars, deleteVars, updateVars, portsVars,
               labelVars, detectVars, execVars>>

\* the subsystems a specification of a single call leaves alone
CallOthersParked ==
    /\ KubeParked
    /\ WaitParked
    /\ CreateParked
    /\ DeleteParked
    /\ UpdateParked
    /\ PortsParked
    /\ LabelsParked
    /\ DetectParked
    /\ ExecParked

\* `for i := 0; i < 15; i++`
RetryCount == 15

\* what b.GetPortMapping can answer: not found, a mapping whose host port is
\* still 0, or a mapping
PortAnswers ==
    {[port |-> 0, err |-> "port mapping not found"], [port |-> 0, err |-> "nil"],
     [port |-> 60000, err |-> "nil"]}

\* fmt.Sprintf("%d", hostPort)
FormatPort(n) ==
    CASE n = 60000 -> "60000"
      [] n = 0 -> "0"
      [] OTHER -> "?"

\* a lookup counted as a success whatever port it reports
LookupWithoutError(ans) == ans.err = "nil"

\* `err == nil && hostPort != 0`
LookupSucceeded(ans) == ans.err = "nil" /\ ans.port # 0

\* one turn of the loop: the lookup, then the return or `lastErr = err` and
\* the sleep
GetPortLookup ==
    /\ callPc = "loop"
    /\ callLocal.i < RetryCount
    /\ \E ans \in PortAnswers :
          IF LookupSucceeded(ans)
          THEN /\ callOut' = [port |-> FormatPort(ans.port), err |-> "nil"]
               /\ callPc' = "done"
               /\ callLocal' = [callLocal EXCEPT !.lookups = Append(@, ans)]
          ELSE /\ callLocal' = [i |-> callLocal.i + 1, lastErr |-> ans.err,
                                lookups |-> Append(callLocal.lookups, ans)]
               /\ UNCHANGED <<callOut, callPc>>
    /\ UNCHANGED <<callIn, callEngine>>
    /\ UNCHANGED callFrame

\* the loop ran out: lastErr, or the error made up when lastErr is nil
GetPortGiveUp ==
    /\ callPc = "loop"
    /\ callLocal.i >= RetryCount
    /\ callOut' = [port |-> "",
                   err |-> IF callLocal.lastErr = "nil"
                           THEN "port mapping not found after retries"
                           ELSE callLocal.lastErr]
    /\ callPc' = "done"
    /\ UNCHANGED <<callIn, callLocal, callEngine>>
    /\ UNCHANGED callFrame

GetPortInit ==
    /\ callIn = [containerName |-> ClusterName]
    /\ callPc = "loop"
    /\ callLocal = [i |-> 0, lastErr |-> "nil", lookups |-> <<>>]
    /\ callOut = <<>>
    /\ callEngine = <<>>
    /\ CallOthersParked

GetPortNext ==
    \/ GetPortLookup
    \/ GetPortGiveUp

SpecGetPort == GetPortInit /\ [][GetPortNext]_vars

\* a lookup that reported a mapping with a nonzero host port
GoodAnswer(ans) == ans.err = "nil" /\ ans.port # 0

\* C21: GetContainerPort performs at most 15 lookups; it returns the host
\* port of the first lookup that succeeds with a nonzero port, and it returns
\* an error exactly when all 15 lookups fail.
GetPortRetriesUntilMapped ==
    LET lookups == callLocal.lookups
        n == Len(lookups)
    IN /\ n <= 15
       /\ callPc = "loop" => \A k \in 1..n : ~GoodAnswer(lookups[k])
       /\ callPc = "done" =>
             /\ callOut.err = "nil" =>
                   /\ n >= 1
                   /\ GoodAnswer(lookups[n])
                   /\ \A k \in 1..(n - 1) : ~GoodAnswer(lookups[k])
                   /\ callOut.port = FormatPort(lookups[n].port)
             /\ callOut.err # "nil" <=>
                   n = 15 /\ \A k \in 1..n : ~GoodAnswer(lookups[k])

GetPortRetriesWitness ==
    /\ callPc = "done"
    /\ Len(callLocal.lookups) = 15
    /\ callOut = [port |-> "60000", err |-> "nil"]

(***************************************************************************)
(* Podman.EnsureNetwork                                                    *)
(***************************************************************************)
\* calls made in succession with the same name
MaxCalls == 3

\* the empty name, a blank one and the default network name
NetworkNames == {"", " ", NetworkName}

\* strings.TrimSpace(name) == ""
IsBlankName(name) == name \in {"", " "}

\* the step after `podman network inspect` with a create issued whatever
\* the inspect said
AfterInspectAlwaysCreate(inspectErr) == "create"

\* `if err := cmd.Run(); err == nil { return nil }`, else the create
AfterInspect(inspectErr) == IF inspectErr = "nil" THEN "return" ELSE "create"

\* a call begins: blank name returns nil, else `podman network inspect`,
\* which exits 0 when the engine has the network and nonzero when not
EnsureInspect ==
    /\ callPc = "inspect"
    /\ IF IsBlankName(callIn.name)
       THEN /\ callOut' = Append(callOut, "nil")
            /\ callPc' = "done"
            /\ UNCHANGED <<callLocal, callEngine>>
       ELSE LET inspectErr == IF callIn.name \in callEngine.networks THEN "nil"
                              ELSE "exit status 125"
            IN /\ IF AfterInspect(inspectErr) = "return"
                  THEN callOut' = Append(callOut, "nil") /\ callPc' = "done"
                  ELSE callPc' = "create" /\ UNCHANGED callOut
               /\ UNCHANGED <<callLocal, callEngine>>
    /\ UNCHANGED callIn
    /\ UNCHANGED callFrame

\* `podman network create <name>`: the engine refuses a name it already
\* has, and the command can fail for another reason
EnsureCreate ==
    /\ callPc = "create"
    /\ \E createOk \in BOOLEAN :
          /\ createOk => callIn.name \notin callEngine.networks
          /\ callEngine' =
                [networks |-> IF createOk THEN callEngine.networks \cup {callIn.name}
                              ELSE callEngine.networks,
                 issued |-> Append(callEngine.issued, Len(callOut) + 1),
                 created |-> callEngine.created + (IF createOk THEN 1 ELSE 0)]
          /\ callOut' = Append(callOut, IF createOk THEN "nil"
                                        ELSE "podman network create failed")
    /\ callPc' = "done"
    /\ UNCHANGED <<callIn, callLocal>>
    /\ UNCHANGED callFrame

\* the next call with the same name
EnsureAgain ==
    /\ callPc = "done"
    /\ Len(callOut) < MaxCalls
    /\ callPc' = "inspect"
    /\ UNCHANGED <<callIn, callLocal, callOut, callEngine>>
    /\ UNCHANGED callFrame

EnsureInit ==
    /\ callIn \in [name : NetworkNames]
    /\ callPc = "inspect"
    /\ callLocal = <<>>
    /\ callOut = <<>>
    /\ callEngine \in [networks : SUBSET {NetworkName, "podman", "kind"}, issued : {<<>>},
                       created : {0}]
    /\ CallOthersParked

EnsureNext ==
    \/ EnsureInspect
    \/ EnsureCreate
    \/ EnsureAgain

SpecEnsureNetwork == EnsureInit /\ [][EnsureNext]_vars

\* the calls, by number, that issued a network create
IssuedIn(k) == \E j \in 1..Len(callEngine.issued) : callEngine.issued[j] = k

Invocations == {1, 2}

\* an invocation adds or removes one of the local names
RaceOps == [op : {"add", "remove"}, name : LocalNames]

RaceCreds == CHOOSE c \in CreateAdminCredentials : TRUE

RacePort == CHOOSE h \in HostPorts : TRUE

\* the file before the two invocations: missing, or left by an earlier add
RaceStartFiles ==
    {AbsentKubeconfig}
        \cup {AddedKubeconfig(AbsentKubeconfig, n, RaceCreds, RacePort) : n \in LocalNames}

\* a save made from the file as it is at the time of the save
MutateCurrentFile(loaded, current) == current

\* the save writes what was computed from the copy loaded earlier; the file
\* is not read again and no lock is held in between
MutatedCopy(loaded, current) == loaded

\* what the invocation computes from a kubeconfig
RaceApply(call, file) ==
    IF call.op = "add" THEN AddedKubeconfig(file, call.name, RaceCreds, RacePort)
    ELSE RemovedKubeconfig(file, call.name)

raceFrame == <<lastOp, prevAdd, waitVars, createVars, deleteVars, updateVars, portsVars,
               labelVars, detectVars, execVars>>

\* os.Stat and LoadKubeconfig: an add starts from an empty kubeconfig when
\* the file is missing, a remove returns nil; a load can fail
RaceLoad(p) ==
    /\ callLocal[p].pc = "load"
    /\ \E loadOk \in BOOLEAN :
          IF ~kc.exists /\ callIn[p].op = "remove"
          THEN /\ callLocal' = [callLocal EXCEPT ![p].pc = "done"]
               /\ callOut' = [callOut EXCEPT ![p] = "nil"]
          ELSE IF loadOk \/ ~kc.exists
          THEN /\ callLocal' = [callLocal EXCEPT ![p] = [pc |-> "save", loaded |-> kc]]
               /\ UNCHANGED callOut
          ELSE /\ callLocal' = [callLocal EXCEPT ![p].pc = "done"]
               /\ callOut' = [callOut EXCEPT ![p] = "failed to load kubeconfig"]
    /\ UNCHANGED <<kc, callIn, callPc, callEngine>>
    /\ UNCHANGED raceFrame

\* the mutation in memory and SaveKubeconfig, which overwrites the file
RaceSave(p) ==
    /\ callLocal[p].pc = "save"
    /\ kc' = RaceApply(callIn[p], MutatedCopy(callLocal[p].loaded, kc))
    /\ callEngine' = Append(callEngine, [by |-> p, loaded |-> callLocal[p].loaded,
                                         before |-> kc, saved |-> kc'])
    /\ callLocal' = [callLocal EXCEPT ![p].pc = "done"]
    /\ callOut' = [callOut EXCEPT ![p] = "nil"]
    /\ UNCHANGED <<callIn, callPc>>
    /\ UNCHANGED raceFrame

RaceInit ==
    /\ kc \in RaceStartFiles
    /\ lastOp = NoOp
    /\ prevAdd = ""
    /\ callIn \in [Invocations -> RaceOps]
    /\ callPc = "run"
    /\ callLocal = [p \in Invocations |-> [pc |-> "load", loaded |-> AbsentKubeconfig]]
    /\ callOut = [p \in Invocations |-> "none"]
    /\ callEngine = <<>>
    /\ WaitParked
    /\ CreateParked
    /\ DeleteParked
    /\ UpdateParked
    /\ PortsParked
    /\ LabelsParked
    /\ DetectParked
    /\ ExecParked

RaceNext == \E p \in Invocations : RaceLoad(p) \/ RaceSave(p)

SpecKubeRace == RaceInit /\ [][RaceNext]_vars

\* C23: each kubeconfig operation is an unlocked whole-file load, mutation in
\* memory and overwrite: every save writes the mutation of the copy its
\* invocation loaded, whatever the file holds by then, so invocations
\* interleaved at load/save granularity can lose an update.
SaveOverwritesFromLoadedCopy ==
    callPc = "run" =>
        \A k \in 1..Len(callEngine) :
            LET w == callEngine[k]
            IN w.saved = RaceApply(callIn[w.by], w.loaded)

\* add(a) and add(b) both returned nil and the file lacks the entries of one
LostUpdateWitness ==
    /\ callPc = "run"
    /\ \A p \in Invocations : callOut[p] = "nil" /\ callIn[p].op = "add"
    /\ callIn[1].name # callIn[2].name
    /\ \E p \in Invocations :
          /\ ~HasEntry(kc.clusters, FormatName(callIn[p].name))
          /\ ~HasEntry(kc.contexts, FormatName(callIn[p].name))
          /\ ~HasEntry(kc.users, FormatName(callIn[p].name))

(***************************************************************************)
(* RunContainer in the Docker and the Podman backend                       *)
(***************************************************************************)
\* runtime.Mount values
RunMounts ==
    {[type |-> "bind", source |-> "/host/etc", target |-> "/etc/k0s", options |-> <<>>],
     [type |-> "volume", source |-> "a-var", target |-> "/var", options |-> <<"ro", "z">>],
     [type |-> "tmpfs", source |-> "", target |-> "/run", options |-> <<>>],
     [type |-> "", source |-> "/host/m", target |-> "/m", options |-> <<"ro">>]}

\* runtime.PortSpec values
RunPublish ==
    {[containerPort |-> APIPort, protocol |-> pr, hostIP |-> ip, hostPort |-> hp] :
        pr \in {"", "TCP"}, ip \in {"", "127.0.0.1"}, hp \in {0, 7443}}

\* the fields of RunContainerOptions the two backends are compared on
RunContainerOptions ==
    [mounts : BoundedSeq(RunMounts, 1), publish : BoundedSeq(RunPublish, 1),
     network : {"", NetworkName}]

RECURSIVE JoinComma(_)
\* strings.Join(options, ",")
JoinComma(options) ==
    IF Len(options) = 0 THEN ""
    ELSE IF Len(options) = 1 THEN options[1]
    ELSE options[1] \o "," \o JoinComma(Tail(options))

\* source:target[:options]
MountEntry(m) ==
    IF Len(m.options) > 0
    THEN m.source \o ":" \o m.target \o ":" \o JoinComma(m.options)
    ELSE m.source \o ":" \o m.target

\* Mounts.ToBinds: only bind and volume mounts become binds
ToBinds(ms) ==
    LET kept == SelectSeq(ms, LAMBDA m : ToLower(m.type) \in {"bind", "volume"})
    IN [k \in 1..Len(kept) |-> MountEntry(kept[k])]

\* natPortBindings: the binding under the key port/proto; the host port is
\* left to the engine when it is 0
DockerBinding(ps) ==
    [containerPort |-> ps.containerPort,
     protocol |-> IF ToLower(ps.protocol) = "" THEN "tcp" ELSE ToLower(ps.protocol),
     hostIP |-> IF ps.hostIP = "" THEN "0.0.0.0" ELSE ps.hostIP,
     hostPort |-> ps.hostPort]

\* the -p argument: port/proto when the host port is 0, else
\* [hostIP:]hostPort:port/proto; without a host IP the engine binds 0.0.0.0
PodmanBinding(ps) ==
    [containerPort |-> ps.containerPort,
     protocol |-> IF ToLower(ps.protocol) = "" THEN "tcp" ELSE ToLower(ps.protocol),
     hostIP |-> IF ps.hostPort = 0 \/ ps.hostIP = "" THEN "0.0.0.0" ELSE ps.hostIP,
     hostPort |-> ps.hostPort]

\* Docker.RunContainer: HostConfig.Binds, HostConfig.PortBindings and the
\* NetworkingConfig handed to ContainerCreate
DockerRunRequest(opts) ==
    [mounts |-> IF Len(opts.mounts) > 0 THEN ToBinds(opts.mounts) ELSE <<>>,
     publish |-> [k \in 1..Len(opts.publish) |-> DockerBinding(opts.publish[k])],
     network |-> ""]

\* Podman.RunContainer: the -v, -p and --network arguments of `podman run`
PodmanRunRequest(opts) ==
    [mounts |-> [k \in 1..Len(opts.mounts) |-> MountEntry(opts.mounts[k])],
     publish |-> [k \in 1..Len(opts.publish) |-> PodmanBinding(opts.publish[k])],
     network |-> IF IsBlankName(opts.network) THEN "" ELSE opts.network]

\* the orchestrator runs the container on the Docker backend
RunOnDocker ==
    /\ callPc = "docker"
    /\ callOut' = [callOut EXCEPT !.docker = DockerRunRequest(callIn)]
    /\ callPc' = "podman"
    /\ UNCHANGED <<callIn, callLocal, callEngine>>
    /\ UNCHANGED callFrame

\* the orchestrator runs the same container on the Podman backend
RunOnPodman ==
    /\ callPc = "podman"
    /\ callOut' = [callOut EXCEPT !.podman = PodmanRunRequest(callIn)]
    /\ callPc' = "done"
    /\ UNCHANGED <<callIn, callLocal, callEngine>>
    /\ UNCHANGED callFrame

NoRequest == [mounts |-> <<>>, publish |-> <<>>, network |-> ""]

RunInit ==
    /\ callIn \in RunContainerOptions
    /\ callPc = "docker"
    /\ callLocal = <<>>
    /\ callOut = [docker |-> NoRequest, podman |-> NoRequest]
    /\ callEngine = <<>>
    /\ CallOthersParked

RunNext ==
    \/ RunOnDocker
    \/ RunOnPodman

SpecRunContainer == RunInit /\ [][RunNext]_vars

\* C24: for every RunContainerOptions value the Docker backend and the
\* Podman backend request the same container configuration: the same
\* mounts, the same published ports and the same attachment to the named
\* network.
BackendsRequestTheSame ==
    callPc = "done" /\ callOut # <<>> =>
        /\ callOut.docker.mounts = callOut.podman.mounts
        /\ callOut.docker.publish = callOut.podman.publish
        /\ callOut.docker.network = callOut.podman.network

(***************************************************************************)
(* The launch arguments of the primary, with node-specific arguments       *)
(***************************************************************************)
\* config.NodeSpec values with their own extra arguments (NodeSpec.Args)
NodeSpecsWithArgs ==
    {[name |-> "", role |-> r, args |-> a] :
        r \in {"controller", "worker"}, a \in {<<>>, <<"--node-arg=value">>}}

ArgTopologies ==
    [nodes : BoundedSeq(NodeSpecsWithArgs, MaxClusterNodes), k0sArgs : K0sArgChoices]

\* createK0sCluster builds cmdArgs from the topology and the staged config
BuildPrimaryArgs ==
    /\ callPc = "build"
    /\ callOut' = PrimaryArgs(callIn.nodes, callIn.k0sArgs, ConfigHostPath)
    /\ callLocal' = [node |-> PickPrimaryIndex(callIn.nodes)]
    /\ callPc' = "done"
    /\ UNCHANGED <<callIn, callEngine>>
    /\ UNCHANGED callFrame

PrimaryArgsInit ==
    /\ callIn \in ArgTopologies
    /\ callPc = "build"
    /\ callLocal = [node |-> 0]
    /\ callOut = <<>>
    /\ callEngine = <<>>
    /\ CallOthersParked

PrimaryArgsNext == BuildPrimaryArgs

SpecPrimaryArgs == PrimaryArgsInit /\ [][PrimaryArgsNext]_vars

\* the last Len(t) elements of s are t
IsSuffix(t, s) ==
    Len(t) <= Len(s) /\ \A k \in 1..Len(t) : s[Len(s) - Len(t) + k] = t[k]

\* the extra arguments of the primary node, none when no node is declared
PrimaryNodeArgs ==
    IF callLocal.node = 0 THEN <<>> ELSE callIn.nodes[callLocal.node].args

\* C25: the primary's launch arguments always include the flag enabling
\* dynamic config, the flag disabling the metrics-server component and
\* --config /etc/k0s/k0s.yaml, followed by all global extra arguments and
\* then all node-specific extra arguments of the primary.
PrimaryArgsAreComplete ==
    callPc = "done" /\ callOut # <<>> =>
        /\ Has(callOut, "--enable-dynamic-config")
        /\ Has(callOut, "--disable-components=metrics-server")
        /\ \E k \in 1..(Len(callOut) - 1) :
              callOut[k] = "--config" /\ callOut[k + 1] = "/etc/k0s/k0s.yaml"
        /\ IsSuffix(callIn.k0sArgs \o PrimaryNodeArgs, callOut)

(***************************************************************************)
(* copyManifestsToDir: the names of the staged files                       *)
(***************************************************************************)
\* entries of spec.k0s.manifests a run walks through
MaxManifests == 1001

\* file names are sequences of character codes: "0" is 48, "_" is 95
\* and "a", "b" are 97, 98
DigitCode(d) == 48 + d

Underscore == 95

\* filepath.Base of a declared source: a or b; <<>> is a blank entry
ManifestBasenames == {<<>>, <<97>>, <<98>>}

RECURSIVE Decimal(_)
\* the decimal digits of n
Decimal(n) == IF n < 10 THEN <<DigitCode(n)>>
              ELSE Decimal(n \div 10) \o <<DigitCode(n % 10)>>

\* fmt.Sprintf("%03d", i): at least three digits, more when i needs more
Format03d(i) ==
    LET digits == Decimal(i)
    IN IF Len(digits) >= 3 THEN digits
       ELSE [k \in 1..(3 - Len(digits)) |-> DigitCode(0)] \o digits

\* fmt.Sprintf("%03d_%s", i, baseName)
StagedName(i, baseName) == Format03d(i) \o <<Underscore>> \o baseName

\* callEngine holds what the last two turns of the loop wrote
NoStagedFile == [index |-> 0, base |-> <<>>, name |-> <<>>]

\* one turn of `for i, mp := range paths`: a blank entry is skipped, a
\* source that cannot be read or written ends the call with the error,
\* else the file is written under its staged name
StageManifest ==
    /\ callPc = "loop"
    /\ callLocal.i < MaxManifests
    /\ \E base \in ManifestBasenames, ok \in BOOLEAN :
          IF base = <<>>
          THEN /\ callLocal' = [callLocal EXCEPT !.i = @ + 1]
               /\ callEngine' = [prev |-> callEngine.last, last |-> NoStagedFile]
               /\ UNCHANGED <<callOut, callPc>>
          ELSE IF ok
          THEN /\ callEngine' = [prev |-> callEngine.last,
                                 last |-> [index |-> callLocal.i, base |-> base,
                                           name |-> StagedName(callLocal.i, base)]]
               /\ callLocal' = [callLocal EXCEPT !.i = @ + 1]
               /\ UNCHANGED <<callOut, callPc>>
          ELSE /\ callOut' = "failed to read manifest"
               /\ callPc' = "done"
               /\ UNCHANGED <<callLocal, callEngine>>
    /\ UNCHANGED callIn
    /\ UNCHANGED callFrame

\* the list is exhausted: return nil
StageReturn ==
    /\ callPc = "loop"
    /\ callLocal.i <= MaxManifests
    /\ callOut' = "nil"
    /\ callPc' = "done"
    /\ UNCHANGED <<callIn, callLocal, callEngine>>
    /\ UNCHANGED callFrame

StageInit ==
    /\ callIn = <<>>
    /\ callPc = "loop"
    /\ callLocal = [i |-> 0]
    /\ callOut = "none"
    /\ callEngine = [prev |-> NoStagedFile, last |-> NoStagedFile]
    /\ CallOthersParked

StageNext ==
    \/ StageManifest
    \/ StageReturn

SpecStageManifests == StageInit /\ [][StageNext]_vars

RECURSIVE LexLess(_, _)
\* s sorts before t as a file name
LexLess(s, t) ==
    IF Len(t) = 0 THEN FALSE
    ELSE IF Len(s) = 0 THEN TRUE
    ELSE IF s[1] # t[1] THEN s[1] < t[1]
    ELSE LexLess(Tail(s), Tail(t))

\* C26: the source at 0-based position i is staged under the name made of
\* i zero-padded to three digits, an underscore and the basename, so that
\* ordering the staged file names reproduces the declared order whatever
\* the alphabetical order of the basenames.
StagedNamesKeepDeclaredOrder ==
    callPc \in {"loop", "done"} /\ callEngine # <<>> =>
        LET prev == callEngine.prev
            last == callEngine.last
        IN /\ last.name # <<>> =>
                 /\ Len(last.name) = 3 + 1 + Len(last.base)
                 /\ last.name[4] = 95
           /\ prev.name # <<>> /\ last.name # <<>> => LexLess(prev.name, last.name)

(***************************************************************************)
(* normalizeSocket, character by character                                 *)
(***************************************************************************)
\* strings are sequences of characters here
UnixColon == <<"u", "n", "i", "x", ":">>

SshColon == <<"s", "s", "h", ":">>

TcpColon == <<"t", "c", "p", ":">>

\* n slashes
Slashes(n) == [k \in 1..n |-> "/"]

MaxSlashes == 4

\* socket values: an optional scheme, some slashes, a rest
SocketInputs ==
    {scheme \o Slashes(n) \o rest :
        scheme \in {<<>>, UnixColon, SshColon, TcpColon},
        n \in 0..MaxSlashes,
        rest \in {<<>>, <<"x">>, <<"r", "/", "x">>}}

\* strings.HasPrefix
HasPrefix(str, prefix) ==
    Len(prefix) <= Len(str) /\ SubSeq(str, 1, Len(prefix)) = prefix

\* strings.TrimPrefix
TrimPrefix(str, prefix) ==
    IF HasPrefix(str, prefix) THEN SubSeq(str, Len(prefix) + 1, Len(str)) ELSE str

\* normalizeSocket rewriting every unix:/ value, well-formed or not
normalizeSocketNoGuard(str) ==
    IF str = <<>> THEN str
    ELSE IF HasPrefix(str, Slashes(1)) THEN UnixColon \o Slashes(2) \o str
    ELSE IF HasPrefix(str, UnixColon \o Slashes(1))
    THEN UnixColon \o Slashes(2) \o TrimPrefix(str, UnixColon)
    ELSE str

\* normalizeSocket
normalizeSocketChars(str) ==
    IF str = <<>> THEN str
    ELSE IF HasPrefix(str, Slashes(1)) THEN UnixColon \o Slashes(2) \o str
    ELSE IF HasPrefix(str, UnixColon \o Slashes(1))
            /\ ~HasPrefix(str, UnixColon \o Slashes(3))
    THEN UnixColon \o Slashes(2) \o TrimPrefix(str, UnixColon)
    ELSE str

\* socket = normalizeSocket(socket)
NormalizeCall ==
    /\ callPc = "call"
    /\ callOut' = normalizeSocketChars(callIn)
    /\ callPc' = "returned"
    /\ UNCHANGED <<callIn, callLocal, callEngine>>
    /\ UNCHANGED callFrame

NormalizeInit ==
    /\ callIn \in SocketInputs
    /\ callPc = "call"
    /\ callLocal = <<>>
    /\ callOut = <<>>
    /\ callEngine = <<>>
    /\ CallOthersParked

NormalizeNext == NormalizeCall

SpecNormalizeSocket == NormalizeInit /\ [][NormalizeNext]_vars

\* C27: normalizeSocket maps a bare absolute path p to unix:// followed by
\* p, maps a single-slash unix:/path to unix:///path, returns every
\* already-well-formed unix:/// or ssh:// URI unchanged, and returns the
\* empty string for empty input.
NormalizeSocketCases ==
    callPc = "returned" =>
        /\ callIn = <<>> => callOut = <<>>
        /\ (callIn # <<>> /\ callIn[1] = "/") =>
              callOut = <<"u", "n", "i", "x", ":", "/", "/">> \o callIn
        /\ \A rest \in {<<"x">>, <<"r", "/", "x">>} :
              /\ callIn = <<"u", "n", "i", "x", ":", "/">> \o rest =>
                    callOut = <<"u", "n", "i", "x", ":", "/", "/", "/">> \o rest
              /\ callIn = <<"u", "n", "i", "x", ":", "/", "/", "/">> \o rest =>
                    callOut = callIn
              /\ callIn = <<"s", "s", "h", ":", "/", "/">> \o rest => callOut = callIn

NormalizeSocketWitness ==
    /\ callPc = "returned"
    /\ callIn = <<"u", "n", "i", "x", ":", "/", "r", "/", "x">>
    /\ callOut = <<"u", "n", "i", "x", ":", "/", "/", "/", "r", "/", "x">>

(***************************************************************************)
(* NormalizeVersionTag and NormalizeImageTag                               *)
(***************************************************************************)
\* longest tag or image reference given to the two functions
MaxRefLen == 4

\* characters of a reference: a letter, the plus sign, the colon, a blank
RefAlphabet == {"r", "+", ":", " "}

RefInputs == UNION {[1..n -> RefAlphabet] : n \in 0..MaxRefLen}

RECURSIVE TrimLeft(_)
TrimLeft(str) ==
    IF str # <<>> /\ str[1] = " " THEN TrimLeft(Tail(str)) ELSE str

RECURSIVE TrimRight(_)
TrimRight(str) ==
    IF str # <<>> /\ str[Len(str)] = " "
    THEN TrimRight(SubSeq(str, 1, Len(str) - 1))
    ELSE str

\* strings.TrimSpace
TrimSpace(str) == TrimRight(TrimLeft(str))

\* strings.ReplaceAll(str, "+", "-")
ReplacePlus(str) == [i \in 1..Len(str) |-> IF str[i] = "+" THEN "-" ELSE str[i]]

\* position of the first colon, 0 when there is none
FirstColon(str) ==
    IF \E i \in 1..Len(str) : str[i] = ":"
    THEN CHOOSE i \in 1..Len(str) :
            str[i] = ":" /\ \A j \in 1..(i - 1) : str[j] # ":"
    ELSE 0

\* strings.LastIndex(str, ":"), counted from 1, 0 when there is none
LastColon(str) ==
    IF \E i \in 1..Len(str) : str[i] = ":"
    THEN CHOOSE i \in 1..Len(str) :
            str[i] = ":" /\ \A j \in (i + 1)..Len(str) : str[j] # ":"
    ELSE 0

NormalizeVersionTag(version) == ReplacePlus(TrimSpace(version))

NormalizeImageTag(image) ==
    LET trimmed == TrimSpace(image)
        colonIdx == LastColon(trimmed)
    IN  IF colonIdx = 0 THEN trimmed
        ELSE SubSeq(trimmed, 1, colonIdx)
                \o NormalizeVersionTag(SubSeq(trimmed, colonIdx + 1, Len(trimmed)))

NormalizeTagCall ==
    /\ callPc = "call"
    /\ callLocal = "tag"
    /\ callOut' = NormalizeVersionTag(callIn)
    /\ callPc' = "returned"
    /\ UNCHANGED <<callIn, callLocal, callEngine>>
    /\ UNCHANGED callFrame

NormalizeImageCall ==
    /\ callPc = "call"
    /\ callLocal = "image"
    /\ callOut' = NormalizeImageTag(callIn)
    /\ callPc' = "returned"
    /\ UNCHANGED <<callIn, callLocal, callEngine>>
    /\ UNCHANGED callFrame

NormalizeTagInit ==
    /\ callIn \in RefInputs
    /\ callLocal \in {"tag", "image"}
    /\ callPc = "call"
    /\ callOut = <<>>
    /\ callEngine = <<>>
    /\ CallOthersParked

NormalizeTagNext ==
    \/ NormalizeTagCall
    \/ NormalizeImageCall

SpecNormalizeTag == NormalizeTagInit /\ [][NormalizeTagNext]_vars

\* to is from with every plus sign turned into a minus sign and nothing else
PlusToMinus(from, to) ==
    /\ Len(to) = Len(from)
    /\ \A i \in 1..Len(from) :
          to[i] = IF from[i] = "+" THEN "-" ELSE from[i]

\* the part of str between its leading and its trailing blanks
WithoutOuterBlanks(str) ==
    CHOOSE part \in {SubSeq(str, a, b) : a \in 1..(Len(str) + 1), b \in 0..Len(str)} :
        \E a \in 1..(Len(str) + 1), b \in 0..Len(str) :
            /\ part = SubSeq(str, a, b)
            /\ \A i \in 1..(a - 1) : str[i] = " "
            /\ \A i \in (b + 1)..Len(str) : str[i] = " "
            /\ a <= b => (str[a] # " " /\ str[b] # " ")
            /\ a > b => \A i \in 1..Len(str) : str[i] = " "

\* to is ref with the replacement applied after the last colon only
TagPartReplaced(ref, to, tagOf(_)) ==
    IF \A i \in 1..Len(ref) : ref[i] # ":"
    THEN to = ref
    ELSE \E k \in 1..Len(ref) :
            /\ ref[k] = ":"
            /\ \A j \in (k + 1)..Len(ref) : ref[j] # ":"
            /\ Len(to) >= k
            /\ SubSeq(to, 1, k) = SubSeq(ref, 1, k)
            /\ PlusToMinus(tagOf(SubSeq(ref, k + 1, Len(ref))),
                           SubSeq(to, k + 1, Len(to)))

SameString(str) == str

ReadyLogged(upTo) == \E j \in 1..upTo : log[j].ev = "ready"

\* C29: in every create of a multi-node topology, no join step for a
\* non-primary node (the mint of its token, the start of its container)
\* begins before the primary node has been observed ready.
JoinsBeginAfterPrimaryReady ==
    /\ pc \in {"mint", "runNode"} => ReadyLogged(Len(log))
    /\ \A k \in 1..Len(log) : log[k].ev \in {"mint", "run"} => ReadyLogged(k - 1)

\* C30: create modifies the unified kubeconfig only after the primary's
\* readiness wait has succeeded (without wait, or when create failed at or
\* before that wait, the file is as it was), and every create that reports
\* success with wait requested has added a cluster, a context and a user
\* entry named k0da-N.
KubeconfigOnlyAfterReady ==
    /\ kc # AbsentKubeconfig => (topo.wait /\ ReadyLogged(Len(log)))
    /\ (CreateSucceeded /\ topo.wait) =>
          /\ HasEntry(kc.clusters, FormatName(ClusterName))
          /\ HasEntry(kc.contexts, FormatName(ClusterName))
          /\ HasEntry(kc.users, FormatName(ClusterName))

(***************************************************************************)
(* create: a token mint that fails                                         *)
(***************************************************************************)
IsExecEvent(e) == e.ev \in {"execError", "execExit"}

ExecFailed(e) == e.ev = "execError" \/ (e.ev = "execExit" /\ e.token # 0)

\* C31: if the token-mint exec for a non-primary node cannot run or exits
\* with a nonzero code, create returns an error, writes no token file for
\* that node and starts no container for that node or for any later node; a
\* token file is only ever written with the output of a mint exec that
\* exited 0.
FailedMintStopsCreate ==
    /\ \A k \in 1..Len(log) :
          ExecFailed(log[k]) =>
              /\ k = Len(log)
              /\ pc = "done" /\ result = "error" /\ failedAt = "mint"
              /\ \A j \in 1..Len(log) :
                    log[j].ev \in {"write", "run"} => log[j].node < log[k].node
              /\ \A c \in JoinedContainers : c.node < log[k].node
    /\ \A k \in 1..Len(log) :
          log[k].ev = "write" =>
              \E j \in 2..(k - 1) :
                  /\ log[j].ev = "mint"
                  /\ log[j].node = log[k].node
                  /\ log[j].token = log[k].token
                  /\ log[j - 1] = Event("execExit", log[k].node, ClusterName, 0)

FailedMintWitness ==
    /\ pc = "done"
    /\ failedAt = "mint"
    /\ log[Len(log)].ev = "execExit"
    /\ log[Len(log)].token = 1
    /\ JoinedContainers # {}
    /\ tokenFiles # {}

(***************************************************************************)
(* WaitForK0sReady: what counts as ready                                   *)
(***************************************************************************)
\* C32: WaitForK0sReady returns success only if a status exec returned
\* without error, with exit code 0 and with output containing the readiness
\* signal; a status exec that errors, exits nonzero or lacks the signal is
\* never taken as success.
SuccessOnlyOnReadySignal ==
    /\ wres = "ok" =>
          /\ wlast # <<>>
          /\ wlast[1].err = FALSE
          /\ wlast[1].exit = 0
          /\ wlast[1].signal = TRUE
    /\ \A k \in 1..Len(wlast) :
          (wlast[k].err \/ wlast[k].exit # 0 \/ ~wlast[k].signal) => wres # "ok"

\* success at a later poll, after a poll that was not ready
SuccessOnlyOnReadySignalWitness ==
    /\ wpc = "done"
    /\ wres = "ok"
    /\ wnow >= 2 * TickInterval
    /\ wlast = <<[err |-> FALSE, exit |-> 0, signal |-> TRUE]>>

(***************************************************************************)
(* create: a staging step that fails                                       *)
(***************************************************************************)
\* C33: if staging of the configuration or of a manifest fails during
\* create, create has returned an error before any engine object was
\* touched: no network has been ensured and no container has been created.
StagingFailureTouchesNoEngineObject ==
    failedAt \in {"stageConfig", "stageManifests"} =>
        /\ pc = "done"
        /\ result = "error"
        /\ networks = {}
        /\ containers = {}
        /\ \A k \in 1..Len(log) : log[k].ev \notin {"network", "primary", "run"}

StagingFailureWitness ==
    /\ pc = "done"
    /\ failedAt = "stageManifests"
    /\ cfgPath = ConfigHostPath
    /\ Len(topo.nodes) = 2

(***************************************************************************)
(* CopyManifestsToDir: the staging directory over successive stagings      *)
(***************************************************************************)
\* longest spec.k0s.manifests list of a staging
MaxDeclared == 2

DeclaredLists == BoundedSeq(ManifestBasenames, MaxDeclared)

\* the files copyManifestsToDir has written once it is past entry upTo
WrittenFiles(paths, upTo) ==
    {StagedName(i - 1, paths[i]) : i \in {k \in 1..upTo : paths[k] # <<>>}}

\* CopyManifestsToDir(cc, destDir): nothing to do for an empty list; else
\* MkdirAll, RemoveAllFiles (a directory that cannot be read is an error, a
\* file that cannot be removed is passed over), then the copy loop, which
\* stops at the first entry it cannot read or write
StageDirCopy ==
    /\ callPc = "call"
    /\ IF Len(callIn) = 0
       THEN callOut' = "nil" /\ callEngine' = callEngine
       ELSE \E mkdirOk \in BOOLEAN, readDirOk \in BOOLEAN,
               kept \in SUBSET callEngine, failAt \in 0..Len(callIn) :
               /\ failAt # 0 => callIn[failAt] # <<>>
               /\ IF ~mkdirOk \/ ~readDirOk
                  THEN callOut' = "error" /\ callEngine' = callEngine
                  ELSE IF failAt = 0
                       THEN /\ callOut' = "nil"
                            /\ callEngine' = kept \cup WrittenFiles(callIn, Len(callIn))
                       ELSE /\ callOut' = "error"
                            /\ callEngine' = kept \cup WrittenFiles(callIn, failAt - 1)
    /\ callPc' = "returned"
    /\ UNCHANGED <<callIn, callLocal>>
    /\ UNCHANGED callFrame

\* the next create or update of the cluster, with the list its config declares
StageDirAgain ==
    /\ callPc = "returned"
    /\ callLocal < MaxCalls
    /\ callIn' \in DeclaredLists
    /\ callLocal' = callLocal + 1
    /\ callPc' = "call"
    /\ UNCHANGED <<callOut, callEngine>>
    /\ UNCHANGED callFrame

StageDirInit ==
    /\ callIn \in DeclaredLists
    /\ callPc = "call"
    /\ callLocal = 1
    /\ callOut = "none"
    /\ callEngine = {}
    /\ CallOthersParked

StageDirNext ==
    \/ StageDirCopy
    \/ StageDirAgain

SpecStageDir == StageDirInit /\ [][StageDirNext]_vars

\* C34: after every successful manifest staging the staging directory
\* contains exactly the files of the currently declared manifests: no file
\* of a previous staging remains, also when the new list is shorter than the
\* previous one or empty.
StagingDirHoldsDeclaredFiles ==
    (callPc = "returned" /\ callOut = "nil") =>
        /\ \A f \in callEngine : f \in WrittenFiles(callIn, Len(callIn))
        /\ \A f \in WrittenFiles(callIn, Len(callIn)) : f \in callEngine

(***************************************************************************)
(* create: the image of the cluster and of its nodes                       *)
(***************************************************************************)
\* images and versions are sequences of characters; the repository
\* quay.io/k0sproject/k0s is written q, the compiled-in version d
DefaultK0sImageRepo == <<"q">>

DefaultK0sVersion == <<"d">>

\* the default of the --image flag
DefaultFlagImage == DefaultK0sImageRepo \o <<":">> \o DefaultK0sVersion

\* --image: left at its default, or given
FlagImages == {DefaultFlagImage, <<"f", ":", "i">>}

\* spec.k0s.image and spec.k0s.version of the cluster config
ConfigImages == {<<>>, <<"r", ":", "c">>, <<"r", ":", "c", "+">>}

ConfigVersions == {<<>>, <<"v">>, <<"v", "+">>}

\* FetchStableK0sVersion: an error, or the body of stable.txt
FetchOutcomes ==
    {[err |-> TRUE, ver |-> <<>>], [err |-> FALSE, ver |-> <<>>],
     [err |-> FALSE, ver |-> <<"s">>], [err |-> FALSE, ver |-> <<"s", "+">>]}

\* spec.nodes[i].image
NodeImages == {<<>>, <<"n", ":", "o">>}

ImageInputs ==
    [flagImage : FlagImages, cfgImage : ConfigImages, cfgVersion : ConfigVersions,
     fetch : FetchOutcomes, primaryNodeImage : NodeImages, joinNodeImage : NodeImages]

\* K0sSpec.EffectiveImage
EffectiveImage(k) ==
    IF k.cfgImage # <<>> THEN NormalizeImageTag(k.cfgImage)
    ELSE IF k.cfgVersion # <<>>
         THEN DefaultK0sImageRepo \o <<":">> \o NormalizeVersionTag(k.cfgVersion)
         ELSE DefaultK0sImageRepo \o <<":">> \o NormalizeVersionTag(DefaultK0sVersion)

\* finalImage of runCreate
FinalImage(in) ==
    IF in.cfgImage # <<>> \/ in.cfgVersion # <<>>
    THEN EffectiveImage(in)
    ELSE IF ~in.fetch.err /\ TrimSpace(in.fetch.ver) # <<>>
         THEN DefaultK0sImageRepo \o <<":">> \o NormalizeVersionTag(in.fetch.ver)
         ELSE DefaultK0sImageRepo \o <<":">> \o DefaultK0sVersion

\* effectiveImage of a node: its own image when it declares one
NodeEffectiveImage(image, nodeImage) ==
    IF TrimSpace(nodeImage) # <<>> THEN nodeImage ELSE image

\* runCreate determines finalImage
ImageResolve ==
    /\ callPc = "resolve"
    /\ callLocal' = FinalImage(callIn)
    /\ callPc' = "primary"
    /\ UNCHANGED <<callIn, callOut, callEngine>>
    /\ UNCHANGED callFrame

\* createK0sCluster(ctx, r, clusterName, finalImage, ...) runs the primary
ImageRunPrimary ==
    /\ callPc = "primary"
    /\ callEngine' = [callEngine EXCEPT
                        !.primary = NodeEffectiveImage(callLocal, callIn.primaryNodeImage)]
    /\ callPc' = "join"
    /\ UNCHANGED <<callIn, callLocal, callOut>>
    /\ UNCHANGED callFrame

\* joinAdditionalNodes(ctx, r, clusterName, image, ...) runs a joined node
ImageRunJoined ==
    /\ callPc = "join"
    /\ callEngine' = [callEngine EXCEPT
                        !.joined = NodeEffectiveImage(callIn.flagImage, callIn.joinNodeImage)]
    /\ callPc' = "done"
    /\ callOut' = "nil"
    /\ UNCHANGED <<callIn, callLocal>>
    /\ UNCHANGED callFrame

ImageInit ==
    /\ callIn \in ImageInputs
    /\ callPc = "resolve"
    /\ callLocal = <<>>
    /\ callOut = "none"
    /\ callEngine = [primary |-> <<>>, joined |-> <<>>]
    /\ CallOthersParked

ImageNext ==
    \/ ImageResolve
    \/ ImageRunPrimary
    \/ ImageRunJoined

SpecImage == ImageInit /\ [][ImageNext]_vars

\* the images given explicitly: by --image or by spec.k0s.image
ExplicitImages(in) ==
    (IF in.flagImage # DefaultFlagImage THEN {in.flagImage} ELSE {})
    \cup (IF in.cfgImage # <<>> THEN {in.cfgImage} ELSE {})

\* ref is image, up to the normalization of its tag
SameImage(ref, image) == PlusToMinus(image, ref)

\* C35: the image of a cluster is resolved by strict precedence: an
\* explicitly given image wins over an explicitly given version, which wins
\* over the remotely fetched stable version, which wins over the compiled-in
\* default; a lower source is used only when every higher one is absent or,
\* for the fetch, failed.
ImageByStrictPrecedence ==
    callPc # "resolve" =>
        IF ExplicitImages(callIn) # {}
        THEN \E given \in ExplicitImages(callIn) : SameImage(callLocal, given)
        ELSE IF callIn.cfgVersion # <<>>
             THEN SameImage(callLocal, <<"q", ":">> \o callIn.cfgVersion)
             ELSE IF ~callIn.fetch.err /\ callIn.fetch.ver # <<>>
                  THEN SameImage(callLocal, <<"q", ":">> \o callIn.fetch.ver)
                  ELSE callLocal = <<"q", ":", "d">>

\* C39: in one create, every node that declares no image override, primary
\* and joined alike, is launched with the same resolved cluster image.
NodesShareTheClusterImage ==
    (callPc = "done" /\ callIn.primaryNodeImage = <<>> /\ callIn.joinNodeImage = <<>>) =>
        /\ callEngine.primary = callLocal
        /\ callEngine.joined = callLocal

(***************************************************************************)
(* Kubeconfig store: current-context and the entries of other clusters     *)
(***************************************************************************)
ContextTargets == EntryNames \cup {"k0da-none"}

\* runContext with a target: a missing file and an unknown context are
\* errors, else current-context is set and the file saved
KubeSwitch(target) ==
    /\ kc' = IF kc.exists /\ HasEntry(kc.contexts, target)
             THEN [kc EXCEPT !.current = target]
             ELSE kc
    /\ lastOp' = [op |-> "switch", name |-> target, creds |-> NoCreds, port |-> "",
                  cur0 |-> kc.current]
    /\ prevAdd' = IF lastOp.op = "add" THEN lastOp.name ELSE ""
    /\ UNCHANGED <<waitVars, createVars, opsVars>>

CurrentIsValid(file) == file.current = "" \/ HasEntry(file.contexts, file.current)

\* a file whose current-context is empty or names one of its contexts
KubeContextInit ==
    /\ KubeInit
    /\ CurrentIsValid(kc)

KubeContextNext ==
    \/ KubeNext
    \/ \E target \in ContextTargets : KubeSwitch(target)

SpecKubeContext == KubeContextInit /\ [][KubeContextNext]_vars

\* C36: starting from a kubeconfig whose current-context is empty or names
\* an existing context, after any sequence of add, remove and context-switch
\* operations, failed ones included, current-context is still empty or the
\* name of a context present in the file.
CurrentContextStaysValid == CurrentIsValid(kc)

OtherEntries(list, n) == SelectSeq(list, LAMBDA e : e.name # FormatName(n))

NodeNamesAreDistinct ==
    /\ pc = "runPrimary" => ~NameTaken(ClusterName)
    /\ pc = "runNode" => ~NameTaken(loc.name)
    /\ \A j, k \in 1..Len(log) :
          (log[j].ev = "write" /\ log[k].ev = "write" /\ log[j].node # log[k].node)
              => log[j].name # log[k].name

(***************************************************************************)
(* the path of the unified kubeconfig, command by command                  *)
(***************************************************************************)
\* The environment a command runs in: KUBECONFIG and HOME as strings of
\* characters, and what os.UserHomeDir answers (<<>> stands for its error).
KubeconfigEnvs ==
    { <<>>, <<" ">>, <<"/", "k">>, <<"/", "k", ":", "/", "j">>,
      <<":", "/", "j">>, <<" ", ":", "/", "j">> }

HomeEnvs == { <<>>, <<" ">>, <<"/", "h">> }

UserHomeDirs == { <<>>, <<"/", "u">> }

PathEnvs ==
    [kubeconfig : KubeconfigEnvs, home : HomeEnvs, userHome : UserHomeDirs]

PathCommands == {"add", "remove", "print", "switch"}

\* strings.Split(v, ":")[0]
FirstListEntry(v) ==
    IF \E i \in 1..Len(v) : v[i] = ":"
    THEN SubSeq(v, 1, (CHOOSE i \in 1..Len(v) :
                          v[i] = ":" /\ \A j \in 1..(i - 1) : v[j] # ":") - 1)
    ELSE v

\* filepath.Join: the empty elements are dropped, the others are joined
\* with the separator
RECURSIVE PathJoin(_)
PathJoin(elems) ==
    IF elems = <<>> THEN <<>>
    ELSE IF Head(elems) = <<>> THEN PathJoin(Tail(elems))
    ELSE IF PathJoin(Tail(elems)) = <<>> THEN Head(elems)
    ELSE Head(elems) \o <<"/">> \o PathJoin(Tail(elems))

defaultKubeconfigPath(env) ==
    IF TrimSpace(env.kubeconfig) # <<>>
       /\ TrimSpace(FirstListEntry(env.kubeconfig)) # <<>>
    THEN FirstListEntry(env.kubeconfig)
    ELSE LET home == IF TrimSpace(env.home) = <<>> /\ env.userHome # <<>>
                     THEN env.userHome
                     ELSE env.home
         IN  PathJoin(<<home, <<".kube">>, <<"config">>>>)

\* the path runKubeconfig builds
printKubeconfigPath(env) == PathJoin(<<env.home, <<".kube">>, <<"config">>>>)

\* the path runContext builds
contextKubeconfigPath(env) ==
    PathJoin(<<env.home, <<".k0da">>, <<"clusters">>, <<"kubeconfig">>>>)

\* AddClusterToKubeconfig, called by create
PathAdd ==
    /\ callPc = "call"
    /\ "add" \notin callLocal
    /\ callLocal' = callLocal \cup {"add"}
    /\ callOut' = [callOut EXCEPT !["add"] = defaultKubeconfigPath(callIn)]
    /\ UNCHANGED <<callIn, callPc, callEngine>>
    /\ UNCHANGED callFrame

\* RemoveClusterFromKubeconfig, called by delete
PathRemove ==
    /\ callPc = "call"
    /\ "remove" \notin callLocal
    /\ callLocal' = callLocal \cup {"remove"}
    /\ callOut' = [callOut EXCEPT !["remove"] = defaultKubeconfigPath(callIn)]
    /\ UNCHANGED <<callIn, callPc, callEngine>>
    /\ UNCHANGED callFrame

\* runKubeconfig
PathPrint ==
    /\ callPc = "call"
    /\ "print" \notin callLocal
    /\ callLocal' = callLocal \cup {"print"}
    /\ callOut' = [callOut EXCEPT !["print"] = printKubeconfigPath(callIn)]
    /\ UNCHANGED <<callIn, callPc, callEngine>>
    /\ UNCHANGED callFrame

\* runContext
PathSwitch ==
    /\ callPc = "call"
    /\ "switch" \notin callLocal
    /\ callLocal' = callLocal \cup {"switch"}
    /\ callOut' = [callOut EXCEPT !["switch"] = contextKubeconfigPath(callIn)]
    /\ UNCHANGED <<callIn, callPc, callEngine>>
    /\ UNCHANGED callFrame

PathInit ==
    /\ callIn \in PathEnvs
    /\ callPc = "call"
    /\ callLocal = {}
    /\ callOut = [cmd \in PathCommands |-> <<>>]
    /\ callEngine = <<>>
    /\ CallOthersParked

PathNext == PathAdd \/ PathRemove \/ PathPrint \/ PathSwitch

SpecKubePath == PathInit /\ [][PathNext]_vars

\* C40: in one environment every command that touches the unified
\* kubeconfig (add, remove, print, context switch) resolves the same file
\* path.
CommandsResolveOnePath ==
    \A c, d \in callLocal : callOut[c] = callOut[d]


====
